---- MODULE Spec2Model ----
(***************************************************************************)
(* ai-form-fill: the field-introspection and value-reconciliation          *)
(* pipeline (field model builder, value writer, response parser,           *)
(* orchestrator), modelled from the library bundle and its TypeScript      *)
(* sources.                                                                *)
(*                                                                         *)
(* JavaScript strings are TLA+ strings; Len, SubSeq and \o act on them     *)
(* character by character.  The apostrophe stands for the backtick         *)
(* (U+0060), which cannot be written inside a TLA+ string literal; neither *)
(* character has a meaning in JSON outside string literals.                *)
(***************************************************************************)
EXTENDS Integers, Sequences, FiniteSets, TLC

VARIABLES
  dom,        \* the form's controls, in document order
  pre,        \* the controls as they were before the last operation
  op,         \* the last operation and its arguments
  events,     \* the assignments and the events of the last operation, in order
  result,     \* what the last operation returned or threw
  nOps,       \* operations performed so far
  selectedFields,  \* AIFormFill.selectedFields
  provider,        \* AIFormFill.provider
  calls,           \* the fill calls suspended at their await, oldest first
  chats            \* per provider, how often its chat was invoked

vars == <<dom, pre, op, events, result, nOps, selectedFields, provider, calls, chats>>

\* the state of the orchestrator and of its providers
aiFormFill == <<selectedFields, provider, calls, chats>>

(***************************************************************************)
(* Bounds of the model.                                                    *)
(***************************************************************************)
MaxWrites == 1

\* longest run of white space put before and after a response
MaxPad == 1

\* most controls in a form handed to the field model builder
MaxControls == 3

\* most operations started on one orchestrator, and most calls suspended at once
MaxOps == 2

MaxInFlight == 2

(***************************************************************************)
(* String primitives of the runtime.                                       *)
(***************************************************************************)
Char(s, i) == SubSeq(s, i, i)

\* the value a property holds when it was never assigned
Undefined == "<undefined>"

\* an allow-list of field names: an array, or undefined
FieldNames(names) == [defined |-> TRUE, names |-> names]

NoFieldNames == [defined |-> FALSE, names |-> <<>>]

\* no orchestrator was constructed
NoAIFormFill ==
  /\ selectedFields = NoFieldNames
  /\ provider = Undefined
  /\ calls = <<>>
  /\ chats = <<>>

IsWhitespace(c) == c \in {" ", "\n", "\t", "\r"}

\* the least member of a non-empty set of positions
Leftmost(positions) == CHOOSE i \in positions : \A j \in positions : i <= j

\* the first position from p on that holds no white space, Len(r) + 1 when there is
\* none
SkipWhitespace(r, p) ==
  IF p > Len(r) THEN p
  ELSE CHOOSE q \in p..(Len(r) + 1) :
         /\ q > Len(r) \/ ~IsWhitespace(Char(r, q))
         /\ \A j \in p..(q - 1) : IsWhitespace(Char(r, j))

TrimStart(s) == SubSeq(s, SkipWhitespace(s, 1), Len(s))

\* s up to its last character that is no white space
TrimEnd(s) ==
  SubSeq(s, 1, Len(s) - (CHOOSE n \in 0..Len(s) :
                           /\ n = Len(s) \/ ~IsWhitespace(Char(s, Len(s) - n))
                           /\ \A j \in 0..(n - 1) : IsWhitespace(Char(s, Len(s) - j))))

\* String.prototype.trim
Trim(s) == TrimEnd(TrimStart(s))

UpperCase == "ABCDEFGHIJKLMNOPQRSTUVWXYZ"

LowerCase == "abcdefghijklmnopqrstuvwxyz"

UpperCaseLetters == {Char(UpperCase, k) : k \in 1..26}

\* the lower-case form of each upper-case letter
LowerOf ==
  [c \in UpperCaseLetters |->
     Char(LowerCase, CHOOSE k \in 1..26 : Char(UpperCase, k) = c)]

LowerChar(c) == IF c \in UpperCaseLetters THEN LowerOf[c] ELSE c

\* String.prototype.toLowerCase
RECURSIVE ToLowerCase(_)
ToLowerCase(s) ==
  IF \A k \in 1..Len(s) : Char(s, k) \notin UpperCaseLetters THEN s
  ELSE IF Len(s) = 1 THEN LowerChar(s)
  ELSE ToLowerCase(SubSeq(s, 1, Len(s) \div 2)) \o ToLowerCase(SubSeq(s, (Len(s) \div 2) + 1, Len(s)))

\* String.prototype.includes
Includes(hay, needle) ==
  \E i \in 0..(Len(hay) - Len(needle)) : SubSeq(hay, i + 1, i + Len(needle)) = needle

\* JavaScript truthiness of a string-or-undefined property
Truthy(s) == s # Undefined /\ s # ""

\* a || b on string-or-undefined operands
OrElse(a, b) == IF Truthy(a) THEN a ELSE b

(***************************************************************************)
(* The DOM the library reads and writes.  A control carries the properties *)
(* the library depends on:                                                 *)
(*   tag         input | textarea | select                                 *)
(*   type        the type property (inputs: the normalised type)           *)
(*   name        the name attribute, "" when absent                        *)
(*   value       the value property (checkbox and radio: the value         *)
(*               attribute, "on" when absent)                              *)
(*   checked     checkedness (checkbox, radio)                             *)
(*   options     the option list of a select: value and display text       *)
(*   sel         index of the selected option, 0 when none                 *)
(*   placeholder the placeholder attribute                                 *)
(*   pattern     the pattern attribute, "" when absent                     *)
(*   forLabel    text of the first label[for=id] of the document, or       *)
(*               Undefined when the control has no id or no such label     *)
(*   wrapLabel   text of the closest ancestor label, or Undefined          *)
(*   hint        the data-aff-hint attribute, or Undefined                 *)
(***************************************************************************)
Control(tag, type, name, value, checked, options, sel, ph, forLabel, wrapLabel, hint) ==
  [tag |-> tag, type |-> type, name |-> name, value |-> value, checked |-> checked,
   options |-> options, sel |-> sel, placeholder |-> ph, pattern |-> "",
   forLabel |-> forLabel, wrapLabel |-> wrapLabel, hint |-> hint]

Option(value, text) == [value |-> value, text |-> text]

\* HTMLSelectElement.value (getter): the value of the selected option
SelectValue(c) == IF c.sel = 0 THEN "" ELSE c.options[c.sel].value

\* the state of a control that a user or a script can observe
Observable(c) ==
  [value |-> IF c.tag = "select" THEN SelectValue(c) ELSE c.value,
   sel |-> c.sel, checked |-> c.checked]

IsRadio(c) == c.tag = "input" /\ c.type = "radio"

\* the indices of d in document order
Indices(d) == [k \in 1..Len(d) |-> k]

\* the first index of s, in order, that satisfies P; 0 when there is none
FirstIndex(s, P(_)) ==
  IF \E k \in 1..Len(s) : P(s[k])
  THEN CHOOSE k \in 1..Len(s) : P(s[k]) /\ \A j \in 1..(k - 1) : ~P(s[j])
  ELSE 0

(***************************************************************************)
(* The value writer.                                                       *)
(***************************************************************************)
\* Faulty variant of NO_VALUE_SENTINELS: the word null is missing.
NO_VALUE_SENTINELS_withoutNull ==
  {"", "n/a", "none", "no value", "empty", "undefined", "unknown", "missing"}

NO_VALUE_SENTINELS ==
  {"null", "", "n/a", "none", "no value", "empty", "undefined", "unknown", "missing"}

TRUTHY_VALUES == {"true", "yes", "1", "checked", "on"}

\* Faulty variant of isNoValue: the sentinel list of the earlier revision of the
\* writer, which does not know "missing".
isNoValue_withoutMissing(normalized) == normalized \in NO_VALUE_SENTINELS \ {"missing"}

\* S
isNoValue(normalized) == normalized \in NO_VALUE_SENTINELS

\* an assignment to the value or the checked property of control i
Assign(i, property) == <<[el |-> i, assign |-> property]>>

IsAssignment(e) == "assign" \in DOMAIN e

Event(i, type, bubbles) == [el |-> i, type |-> type, bubbles |-> bubbles]

\* Faulty variant of dispatchEvents: the change event is left out.
dispatchEvents_inputOnly(i) == <<Event(i, "input", TRUE)>>

\* h: a bubbling input event, then a bubbling change event
dispatchEvents(i) == <<Event(i, "input", TRUE), Event(i, "change", TRUE)>>

Written(d, ev) == [dom |-> d, ev |-> ev]

\* Faulty variant of setCheckboxValue: a truthy value checks the box, any other value
\* leaves it as it is.
setCheckboxValue_onlyChecks(d, i, normalized) ==
  Written([d EXCEPT ![i].checked = @ \/ normalized \in TRUTHY_VALUES],
          Assign(i, "checked") \o dispatchEvents(i))

\* A
setCheckboxValue(d, i, normalized) ==
  Written([d EXCEPT ![i].checked = normalized \in TRUTHY_VALUES],
          Assign(i, "checked") \o dispatchEvents(i))

\* M: the label text of a radio, "" when it has none
getRadioLabel(c) ==
  IF c.forLabel # Undefined THEN Trim(c.forLabel)
  ELSE IF c.wrapLabel # Undefined THEN Trim(c.wrapLabel)
  ELSE ""

\* the loop condition of L
RadioMatches(c, normalized) ==
  LET n == ToLowerCase(getRadioLabel(c))
      a == ToLowerCase(c.value)
  IN  \/ a = normalized
      \/ n = normalized
      \/ Includes(a, normalized)
      \/ Includes(n, normalized)
      \/ Includes(normalized, a)
      \/ Includes(normalized, n)

\* radio.checked = true: the other radios of the group lose their checkedness
CheckRadio(d, j) ==
  [k \in 1..Len(d) |->
     IF k = j THEN [d[k] EXCEPT !.checked = TRUE]
     ELSE IF IsRadio(d[k]) /\ d[k].name = d[j].name THEN [d[k] EXCEPT !.checked = FALSE]
     ELSE d[k]]

\* L
setRadioValue(d, i, normalized) ==
  IF d[i].name = "" THEN Written(d, <<>>)
  ELSE LET InGroup(k) == IsRadio(d[k]) /\ d[k].name = d[i].name
           Hit(k) == InGroup(k) /\ RadioMatches(d[k], normalized)
       IN  IF \E k \in 1..Len(d) : Hit(k)
           THEN LET j == CHOOSE k \in 1..Len(d) : Hit(k) /\ \A m \in 1..(k - 1) : ~Hit(m)
                IN  Written(CheckRadio(d, j), Assign(j, "checked") \o dispatchEvents(j))
           ELSE Written(d, <<>>)

\* HTMLSelectElement.value (setter): the first option with that value is selected
AssignSelectValue(c, v) ==
  [c EXCEPT !.sel = FirstIndex(c.options, LAMBDA o : o.value = v)]

ExactOption(o, normalized) ==
  ToLowerCase(o.value) = normalized \/ ToLowerCase(o.text) = normalized

PartialOption(o, normalized) ==
  \/ Includes(ToLowerCase(o.value), normalized)
  \/ Includes(ToLowerCase(o.text), normalized)
  \/ Includes(normalized, ToLowerCase(o.value))
  \/ Includes(normalized, ToLowerCase(o.text))

\* the option D settles on: 0 when no option matches
FindOption(c, normalized) ==
  LET exact == FirstIndex(c.options, LAMBDA o : ExactOption(o, normalized))
  IN  IF exact # 0 THEN exact
      ELSE FirstIndex(c.options, LAMBDA o : PartialOption(o, normalized))

\* D
setSelectValue(d, i, normalized) ==
  LET r == FindOption(d[i], normalized)
  IN  IF r # 0
      THEN Written([d EXCEPT ![i] = AssignSelectValue(d[i], d[i].options[r].value)],
                   Assign(i, "value") \o dispatchEvents(i))
      ELSE Written(d, <<>>)

(***************************************************************************)
(* Date and time normalisation.  A Date is [nan, y, m, d, hh, mi]: the     *)
(* local calendar fields the formatter reads.  The runtime rt a call runs  *)
(* under is                                                                *)
(*   tz       the local offset from UTC, in hours                          *)
(*   lenient  whether the Date parser rolls a day past the end of its      *)
(*            month over into the next month (implementations differ)     *)
(*   parsed   what the Date parser makes of a string outside the           *)
(*            ECMAScript date-time format (implementation-defined)         *)
(***************************************************************************)
IsDigit(c) == c \in {"0", "1", "2", "3", "4", "5", "6", "7", "8", "9"}

DigitVal(c) ==
  CASE c = "0" -> 0 [] c = "1" -> 1 [] c = "2" -> 2 [] c = "3" -> 3 [] c = "4" -> 4
    [] c = "5" -> 5 [] c = "6" -> 6 [] c = "7" -> 7 [] c = "8" -> 8 [] c = "9" -> 9

DigitChar(n) == SubSeq("0123456789", n + 1, n + 1)

AllDigits(s) == \A k \in 1..Len(s) : IsDigit(Char(s, k))

\* parseInt(s, 10) of a string of digits
RECURSIVE ParseInt(_)
ParseInt(s) ==
  IF Len(s) = 0 THEN 0
  ELSE 10 * ParseInt(SubSeq(s, 1, Len(s) - 1)) + DigitVal(Char(s, Len(s)))

\* Number.prototype.toString of a natural number
RECURSIVE NumStr(_)
NumStr(n) == IF n < 10 THEN DigitChar(n) ELSE NumStr(n \div 10) \o DigitChar(n % 10)

\* n.toString().padStart(2, "0")
Pad2(n) == IF n < 10 THEN "0" \o NumStr(n) ELSE NumStr(n)

NaNDate == [nan |-> TRUE, y |-> 0, m |-> 0, d |-> 0, hh |-> 0, mi |-> 0]

DateOf(y, m, d, hh, mi) == [nan |-> FALSE, y |-> y, m |-> m, d |-> d, hh |-> hh, mi |-> mi]

IsLeap(y) == (y % 4 = 0 /\ y % 100 # 0) \/ y % 400 = 0

DaysInMonth(y, m) ==
  IF m = 2 THEN (IF IsLeap(y) THEN 29 ELSE 28)
  ELSE IF m \in {4, 6, 9, 11} THEN 30 ELSE 31

\* days from 1970-01-01 to the civil date y-m-d
DayOfEra(yoe, mp, d) == yoe * 365 + yoe \div 4 - yoe \div 100 + (153 * mp + 2) \div 5 + d - 1

DaysOfYear(yy, m, d) ==
  (yy \div 400) * 146097 + DayOfEra(yy % 400, (m + 9) % 12, d) - 719468

DaysFromCivil(y, m, d) == DaysOfYear(IF m <= 2 THEN y - 1 ELSE y, m, d)

\* the civil date of a day number
CivilOfMonth(yoe, era, doy, mp) ==
  [y |-> yoe + era * 400 + (IF mp < 10 THEN 0 ELSE 1),
   m |-> IF mp < 10 THEN mp + 3 ELSE mp - 9,
   d |-> doy - (153 * mp + 2) \div 5 + 1]

CivilOfDayOfYear(yoe, era, doy) == CivilOfMonth(yoe, era, doy, (5 * doy + 2) \div 153)

CivilOfYearOfEra(doe, era, yoe) ==
  CivilOfDayOfYear(yoe, era, doe - (365 * yoe + yoe \div 4 - yoe \div 100))

CivilOfDayOfEra(doe, era) ==
  CivilOfYearOfEra(doe, era, (doe - doe \div 1460 + doe \div 36524 - doe \div 146096) \div 365)

CivilOfShifted(z) == CivilOfDayOfEra(z % 146097, z \div 146097)

CivilFromDays(z0) == CivilOfShifted(z0 + 719468)

\* a civil date at the local time hh:mi
AtTime(c, hh, mi) == DateOf(c.y, c.m, c.d, hh, mi)

\* new Date(year, monthIndex, day): local midnight, out-of-range fields roll over
NewDateYMD(year, monthIndex, day) ==
  AtTime(CivilFromDays(DaysFromCivil(year + monthIndex \div 12, (monthIndex % 12) + 1, 1) + day - 1),
         0, 0)

\* the local fields of the instant that is UTC midnight of a civil day number
UtcMidnightLocal(days, tz) ==
  AtTime(CivilFromDays(IF tz < 0 THEN days - 1 ELSE days), IF tz < 0 THEN 24 + tz ELSE tz, 0)

\* /^\d{4}-\d{2}-\d{2}/
IsoPrefix(r) ==
  /\ Len(r) >= 10
  /\ AllDigits(SubSeq(r, 1, 4)) /\ Char(r, 5) = "-"
  /\ AllDigits(SubSeq(r, 6, 7)) /\ Char(r, 8) = "-"
  /\ AllDigits(SubSeq(r, 9, 10))

\* new Date(r) for a string r that has the ISO prefix and names year y, month m, day d
IsoDate(r, y, m, d, days, rt) ==
  LET fieldsOk == m \in 1..12 /\ d \in 1..31
      overflow == m \in 1..12 /\ d \in 1..31 /\ d > DaysInMonth(y, m)
  IN  IF Len(r) = 10 THEN
        \* the date-only form is UTC
        IF ~fieldsOk \/ (overflow /\ ~rt.lenient) THEN NaNDate
        ELSE UtcMidnightLocal(days, rt.tz)
      ELSE IF /\ Len(r) = 16 /\ Char(r, 11) = "T" /\ Char(r, 14) = ":"
              /\ AllDigits(SubSeq(r, 12, 13)) /\ AllDigits(SubSeq(r, 15, 16)) THEN
        \* the date-time form without offset is local time
        IF \/ ~fieldsOk \/ ParseInt(SubSeq(r, 12, 13)) > 23 \/ ParseInt(SubSeq(r, 15, 16)) > 59
           \/ (overflow /\ ~rt.lenient)
        THEN NaNDate
        ELSE AtTime(CivilFromDays(days), ParseInt(SubSeq(r, 12, 13)), ParseInt(SubSeq(r, 15, 16)))
      ELSE rt.parsed

IsoFields(r, y, m, d, rt) == IsoDate(r, y, m, d, DaysFromCivil(y, m, 1) + d - 1, rt)

NewDateIso(r, rt) ==
  IsoFields(r, ParseInt(SubSeq(r, 1, 4)), ParseInt(SubSeq(r, 6, 7)), ParseInt(SubSeq(r, 9, 10)), rt)

IsSeparator(c) == c \in {"/", ".", "-"}

\* /^\d{1,2}[\/.-]\d{1,2}[\/.-]\d{2,4}$/ : the lengths of the three digit runs
TripletShapes(r) ==
  {sh \in (1..2) \X (1..2) \X (2..4) :
     /\ Len(r) = sh[1] + sh[2] + sh[3] + 2
     /\ AllDigits(SubSeq(r, 1, sh[1]))
     /\ IsSeparator(Char(r, sh[1] + 1))
     /\ AllDigits(SubSeq(r, sh[1] + 2, sh[1] + 1 + sh[2]))
     /\ IsSeparator(Char(r, sh[1] + sh[2] + 2))
     /\ AllDigits(SubSeq(r, sh[1] + sh[2] + 3, Len(r)))}

\* the Date of the triplet branch: month c / day u / year f, a year below 100 is in
\* the 2000s
TripletFields(c, u, f) == NewDateYMD(IF f < 100 THEN f + 2000 ELSE f, c - 1, u)

TripletOfShape(r, sh) ==
  TripletFields(ParseInt(SubSeq(r, 1, sh[1])),
                ParseInt(SubSeq(r, sh[1] + 2, sh[1] + 1 + sh[2])),
                ParseInt(SubSeq(r, sh[1] + sh[2] + 3, Len(r))))

NewDateTriplet(r) == TripletOfShape(r, CHOOSE x \in TripletShapes(r) : TRUE)

\* /(\d{1,2}):(\d{2})(?::(\d{2}))?(?:\s*(am|pm))?/i : the match that starts at p with
NoTimeMatch == [ok |-> FALSE, h |-> 0, mm |-> "", ampm |-> Undefined]

\* the match whose minutes end before position afterMin and whose am/pm word, if
\* any, starts at w
TimeMatchWord(r, p, q, word) ==
  [ok |-> TRUE,
   h |-> ParseInt(SubSeq(r, p, q - 1)),
   mm |-> SubSeq(r, q + 1, q + 2),
   ampm |-> IF word \in {"am", "pm"} THEN word ELSE Undefined]

TimeMatchTail(r, p, q, w) ==
  TimeMatchWord(r, p, q, IF w + 1 <= Len(r) THEN ToLowerCase(SubSeq(r, w, w + 1)) ELSE "")

TimeMatchSeconds(r, p, q, hasSec) ==
  TimeMatchTail(r, p, q, SkipWhitespace(r, IF hasSec THEN q + 6 ELSE q + 3))

TimeMatchesAt(r, p, n) ==
  /\ p + n + 2 <= Len(r)
  /\ AllDigits(SubSeq(r, p, p + n - 1))
  /\ Char(r, p + n) = ":"
  /\ AllDigits(SubSeq(r, p + n + 1, p + n + 2))

TimeMatchAt(r, p, n) ==
  IF TimeMatchesAt(r, p, n)
  THEN TimeMatchSeconds(r, p, p + n,
         /\ p + n + 5 <= Len(r) /\ Char(r, p + n + 3) = ":"
         /\ AllDigits(SubSeq(r, p + n + 4, p + n + 5)))
  ELSE NoTimeMatch

\* the match that starts at p, the two-digit hour tried first
TimeMatchFrom(r, p) == IF TimeMatchesAt(r, p, 2) THEN TimeMatchAt(r, p, 2) ELSE TimeMatchAt(r, p, 1)

\* the leftmost position a match starts at, 0 when there is none
TimeMatchStart(r, p) ==
  LET starts == {q \in p..Len(r) : TimeMatchesAt(r, q, 2) \/ TimeMatchesAt(r, q, 1)}
  IN  IF starts = {} THEN 0 ELSE Leftmost(starts)

TimeMatchLeftmost(r, p) == IF p = 0 THEN NoTimeMatch ELSE TimeMatchFrom(r, p)

TimeMatch(r) == TimeMatchLeftmost(r, TimeMatchStart(r, 1))

NullString == "<null>"

\* the return of T for a date or datetime-local field, from the Date t
FormatDate(t, type) ==
  IF t.nan THEN NullString
  ELSE IF type = "datetime-local"
       THEN NumStr(t.y) \o "-" \o Pad2(t.m) \o "-" \o Pad2(t.d)
              \o "T" \o Pad2(t.hh) \o ":" \o Pad2(t.mi)
       ELSE NumStr(t.y) \o "-" \o Pad2(t.m) \o "-" \o Pad2(t.d)

\* the hour of the match s on the 24-hour clock
Hour24(s) ==
  IF s.ampm = "pm" /\ s.h < 12 THEN s.h + 12
  ELSE IF s.ampm = "am" /\ s.h = 12 THEN 0
  ELSE s.h

\* the return of T for a time field, from the match s
FormatTime(s) == IF s.ok THEN Pad2(Hour24(s)) \o ":" \o s.mm ELSE NullString

\* the Date T builds from the trimmed value r
ParseDate(r, rt) ==
  IF IsoPrefix(r) THEN NewDateIso(r, rt)
  ELSE IF TripletShapes(r) # {} THEN NewDateTriplet(r)
  ELSE rt.parsed

NormalizeTrimmed(r, type, rt) ==
  IF type = "time" THEN FormatTime(TimeMatch(r)) ELSE FormatDate(ParseDate(r, rt), type)

\* T, for the kinds setFieldValue routes to it (date, datetime-local, time)
normalizeDateValue(value, type, rt) == NormalizeTrimmed(Trim(value), type, rt)

\* a valid date string: YYYY-MM-DD naming a day of the calendar
ValidDateString(v) ==
  /\ Len(v) = 10 /\ IsoPrefix(v)
  /\ ParseInt(SubSeq(v, 1, 4)) > 0
  /\ ParseInt(SubSeq(v, 6, 7)) \in 1..12
  /\ ParseInt(SubSeq(v, 9, 10)) \in 1..DaysInMonth(ParseInt(SubSeq(v, 1, 4)), ParseInt(SubSeq(v, 6, 7)))

\* a valid time string HH:MM
ValidTimeString(v) ==
  /\ Len(v) = 5 /\ Char(v, 3) = ":"
  /\ AllDigits(SubSeq(v, 1, 2)) /\ AllDigits(SubSeq(v, 4, 5))
  /\ ParseInt(SubSeq(v, 1, 2)) <= 23 /\ ParseInt(SubSeq(v, 4, 5)) <= 59

\* the value sanitization of date, datetime-local and time inputs
SanitizeDateValue(type, v) ==
  IF type = "date" THEN (IF ValidDateString(v) THEN v ELSE "")
  ELSE IF type = "time" THEN (IF ValidTimeString(v) THEN v ELSE "")
  ELSE IF /\ Len(v) = 16 /\ Char(v, 11) = "T"
          /\ ValidDateString(SubSeq(v, 1, 10)) /\ ValidTimeString(SubSeq(v, 12, 16))
       THEN v ELSE ""

\* the write of N, for the normalized value t
WriteDate(d, i, t) ==
  IF t # NullString /\ t # ""
  THEN Written([d EXCEPT ![i].value = SanitizeDateValue(d[i].type, t)],
               Assign(i, "value") \o dispatchEvents(i))
  ELSE Written(d, <<>>)

\* N
setDateValue(d, i, value, rt) == WriteDate(d, i, normalizeDateValue(value, d[i].type, rt))

\* the value sanitization of a single-line text input: line breaks are stripped
RECURSIVE StripNewlines(_)
StripNewlines(s) ==
  IF \A k \in 1..Len(s) : Char(s, k) \notin {"\n", "\r"} THEN s
  ELSE IF Len(s) = 1 THEN ""
  ELSE StripNewlines(SubSeq(s, 1, Len(s) \div 2))
         \o StripNewlines(SubSeq(s, (Len(s) \div 2) + 1, Len(s)))

\* HTMLInputElement.value / HTMLTextAreaElement.value (setter)
AssignValue(c, v) ==
  [c EXCEPT !.value = IF c.tag = "input" THEN StripNewlines(v) ELSE v]

\* Faulty variant of setFieldValue: the word false counts as no value.
setFieldValue_falseIsNoValue(d, i, value, rt) ==
  LET normalized == ToLowerCase(Trim(value))
  IN  IF isNoValue(normalized) \/ normalized = "false" THEN Written(d, <<>>)
      ELSE IF d[i].tag = "input" THEN
             CASE d[i].type = "checkbox" -> setCheckboxValue(d, i, normalized)
               [] d[i].type = "radio" -> setRadioValue(d, i, normalized)
               [] d[i].type \in {"date", "datetime-local", "time"} ->
                    setDateValue(d, i, value, rt)
               [] OTHER -> Written([d EXCEPT ![i] = AssignValue(d[i], value)],
                                   Assign(i, "value") \o dispatchEvents(i))
      ELSE IF d[i].tag = "textarea" THEN
             Written([d EXCEPT ![i] = AssignValue(d[i], value)],
                     Assign(i, "value") \o dispatchEvents(i))
      ELSE IF d[i].tag = "select" THEN setSelectValue(d, i, normalized)
      ELSE Written(d, <<>>)

\* g
setFieldValue(d, i, value, rt) ==
  LET normalized == ToLowerCase(Trim(value))
  IN  IF isNoValue(normalized) THEN Written(d, <<>>)
      ELSE IF d[i].tag = "input" THEN
             CASE d[i].type = "checkbox" -> setCheckboxValue(d, i, normalized)
               [] d[i].type = "radio" -> setRadioValue(d, i, normalized)
               [] d[i].type \in {"date", "datetime-local", "time"} ->
                    setDateValue(d, i, value, rt)
               [] OTHER -> Written([d EXCEPT ![i] = AssignValue(d[i], value)],
                                   Assign(i, "value") \o dispatchEvents(i))
      ELSE IF d[i].tag = "textarea" THEN
             Written([d EXCEPT ![i] = AssignValue(d[i], value)],
                     Assign(i, "value") \o dispatchEvents(i))
      ELSE IF d[i].tag = "select" THEN setSelectValue(d, i, normalized)
      ELSE Written(d, <<>>)

(***************************************************************************)
(* The response parser.  JSON.parse is modelled on the JSON grammar:       *)
(* objects, arrays, strings with the escapes \" \\ \/ \n \r \t, numbers    *)
(* with an optional sign and fraction (no exponent), true, false, null,    *)
(* and white space between tokens.  A parsed value is [t, str, ent]:       *)
(*   t    its type                                                         *)
(*   str  String(value)                                                    *)
(*   ent  Object.entries(value), each value already passed through String  *)
(***************************************************************************)
JsonValue(t, str, ent) == [t |-> t, str |-> str, ent |-> ent]

ParseFailure == [ok |-> FALSE, pos |-> 0, v |-> JsonValue("none", "", <<>>)]

Parsed(pos, v) == [ok |-> TRUE, pos |-> pos, v |-> v]

\* the characters of a string as the entries of a String object
CharEntries(str) == [k \in 1..Len(str) |-> <<NumStr(k - 1), Char(str, k)>>]

\* the number of backslashes that stand directly before position q, from p on
BackslashRun(s, p, q) ==
  q - 1 - (CHOOSE j \in (p - 1)..(q - 1) :
             /\ j = p - 1 \/ Char(s, j) # "\\"
             /\ \A k \in (j + 1)..(q - 1) : Char(s, k) = "\\")

\* position q holds a quote that no backslash escapes
IsClosingQuote(s, p, q) == Char(s, q) = "\"" /\ BackslashRun(s, p, q) % 2 = 0

\* the first closing quote from p on, Len(s) + 1 when there is none
ClosingQuote(s, p) ==
  CHOOSE q \in p..(Len(s) + 1) :
    /\ q > Len(s) \/ IsClosingQuote(s, p, q)
    /\ \A j \in p..(q - 1) : ~IsClosingQuote(s, p, j)

NoString == [ok |-> FALSE, str |-> ""]

\* the character an escape sequence denotes, "" for a sequence JSON does not have
Escaped(e) ==
  CASE e = "\"" -> "\"" [] e = "\\" -> "\\" [] e = "/" -> "/"
    [] e = "n" -> "\n" [] e = "r" -> "\r" [] e = "t" -> "\t" [] OTHER -> ""

RECURSIVE Unescape(_)

UnescapeRest(head, c, rest) ==
  IF c = "" \/ ~rest.ok THEN NoString ELSE [ok |-> TRUE, str |-> head \o c \o rest.str]

\* the body with its leftmost escape sequence, which starts at i, replaced
UnescapeFrom(body, i) ==
  IF i = Len(body) THEN NoString
  ELSE UnescapeRest(SubSeq(body, 1, i - 1), Escaped(Char(body, i + 1)),
                    Unescape(SubSeq(body, i + 2, Len(body))))

UnescapeLeftmost(body, hits) ==
  IF hits = {} THEN [ok |-> TRUE, str |-> body]
  ELSE UnescapeFrom(body, Leftmost(hits))

\* the string the body of a literal denotes; a raw line feed, carriage return or tab
\* is not allowed in it
Unescape(body) ==
  IF \E i \in 1..Len(body) : Char(body, i) \in {"\n", "\r", "\t"} THEN NoString
  ELSE UnescapeLeftmost(body, {i \in 1..Len(body) : Char(body, i) = "\\"
                                 /\ BackslashRun(body, 1, i) % 2 = 0})

StringValue(next, u) ==
  IF u.ok THEN Parsed(next, JsonValue("string", u.str, CharEntries(u.str))) ELSE ParseFailure

StringUpTo(s, p, q) ==
  IF q > Len(s) THEN ParseFailure ELSE StringValue(q + 1, Unescape(SubSeq(s, p, q - 1)))

\* the body of a string literal from position p on: the position after the closing
\* quote and the string denoted
ScanString(s, p) == StringUpTo(s, p, ClosingQuote(s, p))

\* the end of the run of digits that starts at p
DigitsEnd(s, p) ==
  IF p > Len(s) THEN p
  ELSE CHOOSE q \in p..(Len(s) + 1) :
         /\ q > Len(s) \/ ~IsDigit(Char(s, q))
         /\ \A j \in p..(q - 1) : IsDigit(Char(s, j))

RECURSIVE StripTrailingZeros(_)
StripTrailingZeros(f) ==
  IF Len(f) > 0 /\ Char(f, Len(f)) = "0" THEN StripTrailingZeros(SubSeq(f, 1, Len(f) - 1))
  ELSE f

\* String(Number(literal)) for a sign, an integer part and a fraction
NumberToString(neg, int, frac) ==
  LET f == StripTrailingZeros(frac)
      zero == int = "0" /\ f = ""
  IN  (IF neg /\ ~zero THEN "-" ELSE "") \o int \o (IF f = "" THEN "" ELSE "." \o f)

\* a number whose integer part is s[i0..i1-1] and whose fraction, if any, ends before f1
NumberOf(s, neg, i0, i1, f1) ==
  IF \/ i1 = i0
     \/ (Char(s, i0) = "0" /\ i1 > i0 + 1)
     \/ (f1 > i1 /\ f1 = i1 + 1)
     \/ (f1 <= Len(s) /\ Char(s, f1) \in {"e", "E"})
  THEN ParseFailure
  ELSE Parsed(f1, JsonValue("number",
                  NumberToString(neg, SubSeq(s, i0, i1 - 1),
                                 IF f1 > i1 THEN SubSeq(s, i1 + 1, f1 - 1) ELSE ""),
                  <<>>))

NumberFraction(s, neg, i0, i1) ==
  NumberOf(s, neg, i0, i1,
           IF i1 <= Len(s) /\ Char(s, i1) = "." THEN DigitsEnd(s, i1 + 1) ELSE i1)

NumberInteger(s, neg, i0) ==
  IF i0 > Len(s) THEN ParseFailure ELSE NumberFraction(s, neg, i0, DigitsEnd(s, i0))

ParseNumber(s, p) ==
  IF Char(s, p) = "-" THEN NumberInteger(s, TRUE, p + 1) ELSE NumberInteger(s, FALSE, p)

ParseLiteral(s, p, word, t) ==
  IF p + Len(word) - 1 <= Len(s) /\ SubSeq(s, p, p + Len(word) - 1) = word
  THEN Parsed(p + Len(word), JsonValue(t, word, <<>>))
  ELSE ParseFailure

\* Array.prototype.join(","): null elements are empty
JoinWith(acc, v) ==
  LET piece == IF v.t = "null" THEN "" ELSE v.str
  IN  IF acc.n = 0 THEN piece ELSE acc.str \o "," \o piece

RECURSIVE ParseValue(_, _), ParseMembers(_, _, _), ParseElements(_, _, _)

\* after a member: a comma and more members, or the closing brace
MemberEnd(s, next, ent) ==
  IF next > Len(s) THEN ParseFailure
  ELSE IF Char(s, next) = "," THEN ParseMembers(s, next + 1, ent)
  ELSE IF Char(s, next) = "}"
  THEN Parsed(next + 1, JsonValue("object", "[object Object]", ent))
  ELSE ParseFailure

MemberValue(s, key, val, ent) ==
  IF ~val.ok THEN ParseFailure
  ELSE MemberEnd(s, SkipWhitespace(s, val.pos), Append(ent, <<key, val.v.str>>))

MemberColon(s, key, colon, ent) ==
  IF colon > Len(s) \/ Char(s, colon) # ":" THEN ParseFailure
  ELSE MemberValue(s, key, ParseValue(s, colon + 1), ent)

MemberKey(s, key, ent) ==
  IF ~key.ok THEN ParseFailure
  ELSE MemberColon(s, key.v.str, SkipWhitespace(s, key.pos), ent)

MemberStart(s, q, ent) ==
  IF q > Len(s) \/ Char(s, q) # "\"" THEN ParseFailure
  ELSE MemberKey(s, ScanString(s, q + 1), ent)

\* the members of an object from position p on, after `ent` were read
ParseMembers(s, p, ent) == MemberStart(s, SkipWhitespace(s, p), ent)

\* after an element: a comma and more elements, or the closing bracket
ElementEnd(s, next, acc) ==
  IF next > Len(s) THEN ParseFailure
  ELSE IF Char(s, next) = "," THEN ParseElements(s, next + 1, acc)
  ELSE IF Char(s, next) = "]" THEN Parsed(next + 1, JsonValue("array", acc.str, acc.ent))
  ELSE ParseFailure

ElementValue(s, val, acc) ==
  IF ~val.ok THEN ParseFailure
  ELSE ElementEnd(s, SkipWhitespace(s, val.pos),
                  [n |-> acc.n + 1, str |-> JoinWith(acc, val.v),
                   ent |-> Append(acc.ent, <<NumStr(acc.n), val.v.str>>)])

\* the elements of an array from position p on, after acc.n elements were read
ParseElements(s, p, acc) == ElementValue(s, ParseValue(s, p), acc)

\* the value that starts with the character c at position q
ValueAt(s, q, c, after) ==
  CASE c = "{" ->
         IF after <= Len(s) /\ Char(s, after) = "}"
         THEN Parsed(after + 1, JsonValue("object", "[object Object]", <<>>))
         ELSE ParseMembers(s, q + 1, <<>>)
    [] c = "[" ->
         IF after <= Len(s) /\ Char(s, after) = "]"
         THEN Parsed(after + 1, JsonValue("array", "", <<>>))
         ELSE ParseElements(s, q + 1, [n |-> 0, str |-> "", ent |-> <<>>])
    [] c = "\"" -> ScanString(s, q + 1)
    [] c = "t" -> ParseLiteral(s, q, "true", "boolean")
    [] c = "f" -> ParseLiteral(s, q, "false", "boolean")
    [] c = "n" -> ParseLiteral(s, q, "null", "null")
    [] c = "-" \/ IsDigit(c) -> ParseNumber(s, q)
    [] OTHER -> ParseFailure

ValueFrom(s, q) ==
  ValueAt(s, q, IF q <= Len(s) THEN Char(s, q) ELSE "", SkipWhitespace(s, q + 1))

ParseValue(s, p) == ValueFrom(s, SkipWhitespace(s, p))

\* the value r, when nothing but white space follows it
WholeText(s, r) == IF r.ok /\ SkipWhitespace(s, r.pos) = Len(s) + 1 THEN r ELSE ParseFailure

\* JSON.parse: one value, white space around it, nothing else
JsonParse(s) == WholeText(s, ParseValue(s, 1))

\* the positions of s at which the marker starts
Occurrences(s, marker) ==
  {i \in 1..(Len(s) - Len(marker) + 1) : SubSeq(s, i, i + Len(marker) - 1) = marker}

\* the position after the match that starts at i: past the marker and past the line
\* feed that follows it
MatchEnd(s, marker, i) ==
  IF i + Len(marker) <= Len(s) /\ Char(s, i + Len(marker)) = "\n"
  THEN i + Len(marker) + 1
  ELSE i + Len(marker)

RECURSIVE RemoveAll(_, _)

\* s without its leftmost match, which starts at i, and without the later matches
RemoveFrom(s, marker, i) ==
  SubSeq(s, 1, i - 1) \o RemoveAll(SubSeq(s, MatchEnd(s, marker, i), Len(s)), marker)

RemoveLeftmost(s, marker, hits) ==
  IF hits = {} THEN s
  ELSE RemoveFrom(s, marker, Leftmost(hits))

\* String.prototype.replace(/<marker>\n?/g, ""): every occurrence of the marker, left
\* to right and without overlap, is removed with the line feed that follows it
RemoveAll(s, marker) == RemoveLeftmost(s, marker, Occurrences(s, marker))

Fence == "'''"

JsonFence == "'''json"

\* Faulty variant of CleanResponse: only the bare marker is removed, the language tag
\* of a json fence stays in the text.
CleanResponse_bareOnly(aiResponse) == Trim(RemoveAll(Trim(aiResponse), Fence))

CleanResponse(aiResponse) == Trim(RemoveAll(RemoveAll(Trim(aiResponse), JsonFence), Fence))

EmptyMapping == [k \in {} |-> ""]

\* the object built by result[fieldName] = String(fieldValue) over the entries in
\* order: a later entry replaces an earlier one of the same key, and assigning a
\* string to __proto__ adds no property
MappingOf(ent) ==
  LET keys == {ent[k][1] : k \in 1..Len(ent)} \ {"__proto__"}
      Last(key) == CHOOSE k \in 1..Len(ent) :
                     ent[k][1] = key /\ \A j \in (k + 1)..Len(ent) : ent[j][1] # key
  IN  [key \in keys |-> ent[Last(key)][2]]

Returned(value) == [threw |-> FALSE, value |-> value]

Thrown == [threw |-> TRUE, value |-> EmptyMapping]

\* the loop over Object.entries of the parsed value r
EntriesOf(r) == IF ~r.ok \/ r.v.t = "null" THEN Thrown ELSE Returned(MappingOf(r.v.ent))

\* the try block of parseJsonResponse: JSON.parse throws a SyntaxError on malformed
\* text and Object.entries throws a TypeError on null
ParseBody(aiResponse) == EntriesOf(JsonParse(CleanResponse(aiResponse)))

\* Faulty variant of parseJsonResponse: no catch clause, the error propagates.
parseJsonResponse_uncaught(aiResponse) == ParseBody(aiResponse)

\* the catch clause of parseJsonResponse
CatchParse(body) == IF body.threw THEN Returned(EmptyMapping) ELSE body

\* R
parseJsonResponse(aiResponse) == CatchParse(ParseBody(aiResponse))

(***************************************************************************)
(* Controls and inputs the value writer is exercised on.                   *)
(***************************************************************************)
TextInput(name, value, ph) ==
  Control("input", "text", name, value, FALSE, <<>>, 0, ph, Undefined, Undefined, Undefined)

TextArea(name, value, ph) ==
  Control("textarea", "textarea", name, value, FALSE, <<>>, 0, ph, Undefined, Undefined, Undefined)

Checkbox(name, value, checked) ==
  Control("input", "checkbox", name, value, checked, <<>>, 0, "", Undefined, Undefined, Undefined)

Radio(name, value, checked, forLabel, hint) ==
  Control("input", "radio", name, value, checked, <<>>, 0, "", forLabel, Undefined, hint)

DateLike(type, name, value) ==
  Control("input", type, name, value, FALSE, <<>>, 0, "", Undefined, Undefined, Undefined)

Select(name, options, sel) ==
  Control("select", "select-one", name, "", FALSE, options, sel, "", Undefined, Undefined, Undefined)

OtherInput(type, name, value) ==
  Control("input", type, name, value, FALSE, <<>>, 0, "", Undefined, Undefined, Undefined)

CountryOptions == <<Option("de", "Germany"), Option("us", "United States")>>

PlaceholderOptions ==
  <<Option("", "Select..."), Option("de", "Germany"), Option("us", "USA")>>

\* an option that only contains the input "us" precedes the option that equals it
PrecedenceOptions == <<Option("usa", "USA Territory"), Option("us", "US")>>

\* two options that share a value and differ in their display text
SharedValueOptions == <<Option("x", "Alpha"), Option("x", "Beta")>>

SelectOptionLists ==
  {CountryOptions, PlaceholderOptions, PrecedenceOptions, SharedValueOptions}

GenderGroup(checkedIdx) ==
  <<Radio("gender", "m", checkedIdx = 1, "Male", Undefined),
    Radio("gender", "f", checkedIdx = 2, "Female", Undefined),
    Radio("gender", "o", checkedIdx = 3, Undefined, Undefined)>>

\* a group whose radios all have a label: one by a label element that refers to it,
\* one by the label element around it
SizeGroup(checkedIdx) ==
  <<Radio("size", "s", checkedIdx = 1, " Small ", Undefined),
    [Radio("size", "l", checkedIdx = 2, Undefined, Undefined) EXCEPT !.wrapLabel = "Large"]>>

WriterDoms ==
  {<<TextInput("city", v, "")>> : v \in {"", "original"}}
    \cup {<<TextArea("remarks", v, "")>> : v \in {"", "original"}}
    \cup {<<Checkbox("terms", "on", b)>> : b \in BOOLEAN}
    \cup {<<DateLike("date", "birthday", v)>> : v \in {"", "2020-01-31"}}
    \cup {<<DateLike("time", "start", "08:30")>>}
    \cup {<<DateLike("datetime-local", "meeting", "")>>}
    \cup {<<Select("country", o, k)>> : o \in SelectOptionLists, k \in 1..2}
    \cup {GenderGroup(k) : k \in 0..3}
    \cup {SizeGroup(k) : k \in 1..2}
    \cup {<<Radio("", "solo", FALSE, Undefined, Undefined)>>}

SentinelInputs ==
  {"null", "NULL", " null ", "", "  ", "n/a", "N/A", "none", "no value", "No Value",
   "empty", "undefined", "unknown", "missing", "Missing\n"}

BooleanInputs == {"true", "TRUE", "yes", " Yes ", "1", "checked", "on", "ON",
                  "false", "no", "0", "off", "maybe"}

ChoiceInputs == {"us", "US", "Germany", "germ", "united states", "beta", "Female", "xyz"}

DateInputs ==
  {"2023-07-10", "2024-02-30", "12/25/2023", "3:45 pm", "whenever",
   "12:05 am", "12:30 PM", "at 9:07", "25:99", "13/45/2023", "1.2.24", "2-30-2024"}

RawValues == SentinelInputs \cup BooleanInputs \cup ChoiceInputs \cup DateInputs

IsDateLike(c) == c.tag = "input" /\ c.type \in {"date", "datetime-local", "time"}

DefaultRuntime == [tz |-> 2, lenient |-> FALSE, parsed |-> NaNDate]

Runtimes ==
  [tz : {0 - 5, 2}, lenient : BOOLEAN, parsed : {NaNDate, DateOf(2001, 1, 1, 0, 0)}]

NoOp == [name |-> "none"]

\* the result of an operation that returns nothing
Void == [threw |-> FALSE, value |-> Undefined]

(***************************************************************************)
(* The value writer called on the controls of a page, one call after       *)
(* another.                                                                *)
(***************************************************************************)
\* the controls and the events of a write become the state
Apply(w) ==
  /\ dom' = w.dom
  /\ events' = w.ev

InitWriter ==
  /\ dom \in WriterDoms
  /\ pre = dom
  /\ op = NoOp
  /\ events = <<>>
  /\ result = Void
  /\ nOps = 0
  /\ NoAIFormFill

SetFieldValue(i, value, rt) ==
  /\ nOps < MaxWrites
  /\ (IsDateLike(dom[i]) /\ value \in DateInputs) \/ rt = DefaultRuntime
  /\ Apply(setFieldValue(dom, i, value, rt))
  /\ pre' = dom
  /\ op' = [name |-> "setFieldValue", el |-> i, value |-> value, rt |-> rt]
  /\ result' = Void
  /\ nOps' = nOps + 1
  /\ UNCHANGED aiFormFill

NextWriter ==
  \E i \in 1..Len(dom), value \in RawValues, rt \in Runtimes : SetFieldValue(i, value, rt)

SpecWriter == InitWriter /\ [][NextWriter]_vars

(***************************************************************************)
(* Properties of the value writer.                                         *)
(***************************************************************************)
WriterCalled == op.name = "setFieldValue"

\* the value the writer compares: trimmed and lower-cased
NormalizedInput == ToLowerCase(Trim(op.value))

\* the "no data" words as the specification lists them
NoDataWords ==
  {"null", "", "n/a", "none", "no value", "empty", "undefined", "unknown", "missing"}

\* the truthy words as the specification lists them
TruthyWords == {"true", "yes", "1", "checked", "on"}

Unchanged(k) == Observable(dom[k]) = Observable(pre[k])

\* C1: for every control kind, a raw value whose trimmed, lower-cased form is a
\* "no data" word leaves the value and the checked state of every control as they
\* were before the call.
C1_SentinelLeavesControlUnchanged ==
  (WriterCalled /\ NormalizedInput \in NoDataWords)
    => (Len(dom) = Len(pre) /\ \A k \in 1..Len(dom) : Unchanged(k))

\* C1 witness: "Missing" followed by a line break was written to a text input that
\* held a value, and the value is still there.
C1_Witness ==
  /\ WriterCalled /\ op.value = "Missing\n"
  /\ dom[op.el].type = "text" /\ dom[op.el].value = "original"

\* C7: after a non-sentinel value is written to a checkbox, the checkbox is checked
\* exactly when the trimmed, lower-cased value is a truthy word, whatever its state was.
C7_CheckboxCheckedIffTruthy ==
  (WriterCalled /\ pre[op.el].type = "checkbox" /\ NormalizedInput \notin NoDataWords)
    => (dom[op.el].checked <=> NormalizedInput \in TruthyWords)

\* C7 witness: a checked checkbox was written "maybe" and is now unchecked.
C7_Witness ==
  /\ WriterCalled /\ pre[op.el].type = "checkbox" /\ op.value = "maybe"
  /\ pre[op.el].checked /\ ~dom[op.el].checked

EqualsInput(o) == ToLowerCase(o.value) = NormalizedInput \/ ToLowerCase(o.text) = NormalizedInput

SubstringOfInput(o) ==
  \/ Includes(ToLowerCase(o.value), NormalizedInput)
  \/ Includes(ToLowerCase(o.text), NormalizedInput)
  \/ Includes(NormalizedInput, ToLowerCase(o.value))
  \/ Includes(NormalizedInput, ToLowerCase(o.text))

\* C8: when some option's value or display text equals the input case-insensitively,
\* the first such option in document order is the selected one afterwards, even when
\* an earlier option only substring-matches; the first substring match in document
\* order is selected only when no option equals the input.
C8_SelectExactMatchFirst ==
  (WriterCalled /\ pre[op.el].tag = "select" /\ NormalizedInput \notin NoDataWords)
    => LET opts == pre[op.el].options
           exact == FirstIndex(opts, EqualsInput)
           partial == FirstIndex(opts, SubstringOfInput)
       IN  /\ exact # 0 => dom[op.el].sel = exact
           /\ (exact = 0 /\ partial # 0) => dom[op.el].sel = partial

\* the Date the writer's parsing paths make of the input of the last call is invalid
NoPathAccepts == ParseDate(Trim(op.value), op.rt).nan

\* C11: a write of a valid calendar date YYYY-MM-DD to a date input leaves the input
\* holding exactly that string, whatever the local offset of the runtime is; a write of
\* a string that no parsing path accepts leaves the value of the date input as it was.
C11_IsoDateKeptUnderEveryOffset ==
  (WriterCalled /\ pre[op.el].tag = "input" /\ pre[op.el].type = "date")
    => /\ ValidDateString(op.value) => dom[op.el].value = op.value
       /\ NoPathAccepts => dom[op.el].value = pre[op.el].value

\* the radios of the group of the written radio, in document order
GroupMembers ==
  SelectSeq(Indices(pre), LAMBDA k : IsRadio(pre[k]) /\ pre[k].name = pre[op.el].name)

\* s is the input, contains it or is contained in it
RelatedToInput(s) ==
  s = NormalizedInput \/ Includes(s, NormalizedInput) \/ Includes(NormalizedInput, s)

\* no option of the written select is related to the input by its value or its text
NoOptionRelated ==
  /\ pre[op.el].tag = "select"
  /\ \A n \in 1..Len(pre[op.el].options) :
       /\ ~RelatedToInput(ToLowerCase(pre[op.el].options[n].value))
       /\ ~RelatedToInput(ToLowerCase(pre[op.el].options[n].text))

\* no radio of the written radio's group is related to the input by its value or by
\* the text of its label element, which is empty when it has none
NoRadioRelated ==
  /\ IsRadio(pre[op.el])
  /\ \A n \in 1..Len(GroupMembers) :
       /\ ~RelatedToInput(ToLowerCase(pre[GroupMembers[n]].value))
       /\ ~RelatedToInput(ToLowerCase(getRadioLabel(pre[GroupMembers[n]])))

\* the input is for a date, datetime-local or time input and cannot be read as one
NoDateOrTime ==
  /\ IsDateLike(pre[op.el])
  /\ IF pre[op.el].type = "time" THEN ~TimeMatch(Trim(op.value)).ok ELSE NoPathAccepts

\* the log of the call is empty, or it is one assignment to a control followed by a
\* bubbling input event and a bubbling change event on that control
AssignmentThenEvents ==
  \/ events = <<>>
  \/ /\ Len(events) = 3
     /\ IsAssignment(events[1])
     /\ events[2] = Event(events[1].el, "input", TRUE)
     /\ events[3] = Event(events[1].el, "change", TRUE)

\* C16: setFieldValue dispatches a bubbling input event and then a bubbling change
\* event on a control exactly when it assigns the value or the checked state of that
\* control: every assignment is followed by the two events, no event comes without an
\* assignment, no control changes without an assignment, and a call that ends in a
\* sentinel value, in a select or radio group without related option, or in a date or
\* time that cannot be read assigns nothing and dispatches nothing.
C16_EventsExactlyOnAssignment ==
  WriterCalled =>
    /\ AssignmentThenEvents
    /\ \A k \in 1..Len(dom) : ~Unchanged(k) => events # <<>>
    /\ (\/ NormalizedInput \in NoDataWords
        \/ NoOptionRelated \/ NoRadioRelated \/ NoDateOrTime) => events = <<>>

\* C16 witness: a select was assigned an option and the input and change events on it
\* followed.
C16_Witness ==
  /\ WriterCalled /\ pre[op.el].tag = "select" /\ dom[op.el].sel # pre[op.el].sel
  /\ events = Assign(op.el, "value") \o <<Event(op.el, "input", TRUE), Event(op.el, "change", TRUE)>>

(***************************************************************************)
(* Responses the parser is exercised on.  A response is rendered from a    *)
(* source: a body, the fence put around it and the white space put around  *)
(* that.  The body of an object source is written member by member; each   *)
(* member carries its key, the JSON text of its value and the string       *)
(* String() yields for that value.                                         *)
(***************************************************************************)
Member(key, literal, text) == [key |-> key, literal |-> literal, text |-> text]

JsonObjects ==
  { <<Member("firstName", "\"Jane\"", "Jane"), Member("age", "25", "25")>>,
    <<>>,
    <<Member("active", "true", "true"), Member("newsletter", "false", "false"),
      Member("middle", "null", "null")>>,
    <<Member("score", "3.140", "3.14"), Member("delta", "-0", "0"),
      Member("offset", "-12.5", "-12.5")>>,
    <<Member("tags", "[\"x\", null, \"y\"]", "x,,y"),
      Member("address", "{\"city\": \"Ulm\"}", "[object Object]")>>,
    <<Member("quote", "\"say \\\"hi\\\"\\n\"", "say \"hi\"\n")>>,
    <<Member("snippet", "\"a'''b\"", "a'''b")>>,
    <<Member("__proto__", "\"x\"", "x"), Member("city", "\"Ulm\"", "Ulm")>>,
    <<Member("city", "\"Ulm\"", "Ulm"), Member("city", "\"Bonn\"", "Bonn")>> }

\* texts JSON.parse rejects
MalformedBodies ==
  { "", "{ invalid json }", "{\"a\":1,}", "{\"a\":01}", "{\"a\":\"b\"",
    "Here you go: {\"a\":\"b\"}", "{\"a\":\"x\ny\"}", "{a:1}", "undefined" }

\* JSON texts that are not objects
ScalarBodies == { "null", "12", "true", "\"ab\"", "[true]" }

Layouts == {"compact", "pretty"}

RECURSIVE RenderMembers(_, _, _)
RenderMembers(members, layout, k) ==
  IF k > Len(members) THEN ""
  ELSE (IF k > 1 THEN "," ELSE "")
         \o (IF layout = "pretty" THEN "\n  " ELSE "")
         \o "\"" \o members[k].key \o "\":"
         \o (IF layout = "pretty" THEN " " ELSE "")
         \o members[k].literal
         \o RenderMembers(members, layout, k + 1)

RenderObject(members, layout) ==
  "{" \o RenderMembers(members, layout, 1)
      \o (IF layout = "pretty" /\ Len(members) > 0 THEN "\n" ELSE "")
      \o "}"

FenceStyles == {"none", "bare", "json", "jsonInline", "js", "JSON"}

Fenced(body, style) ==
  CASE style = "none" -> body
    [] style = "bare" -> Fence \o "\n" \o body \o "\n" \o Fence
    [] style = "json" -> JsonFence \o "\n" \o body \o "\n" \o Fence
    [] style = "jsonInline" -> JsonFence \o body \o Fence
    [] style = "js" -> Fence \o "js\n" \o body \o "\n" \o Fence
    [] style = "JSON" -> Fence \o "JSON\n" \o body \o "\n" \o Fence

RECURSIVE StringsOver(_, _)
StringsOver(chars, n) ==
  IF n = 0 THEN {""}
  ELSE LET shorter == StringsOver(chars, n - 1)
       IN  shorter \cup {s \o c : s \in shorter, c \in chars}

Pads == StringsOver({" ", "\n", "\t"}, MaxPad)

ParserSources ==
  [kind : {"object"}, members : JsonObjects, layout : Layouts, body : {""},
   fence : FenceStyles, lead : Pads, trail : Pads]
    \cup [kind : {"malformed"}, members : {<<>>}, layout : {"compact"}, body : MalformedBodies,
          fence : {"none", "bare", "json"}, lead : Pads, trail : Pads]
    \cup [kind : {"scalar"}, members : {<<>>}, layout : {"compact"}, body : ScalarBodies,
          fence : {"none", "bare", "json"}, lead : Pads, trail : Pads]

Render(src) ==
  LET body == IF src.kind = "object" THEN RenderObject(src.members, src.layout) ELSE src.body
  IN  src.lead \o Fenced(body, src.fence) \o src.trail

(***************************************************************************)
(* The response parser on its own.                                         *)
(***************************************************************************)
\* a call that is about to be made with the response rendered from src
PendingParse(src) == [name |-> "call", aiResponse |-> Render(src), source |-> src]

InitParser ==
  /\ dom = <<>>
  /\ pre = <<>>
  /\ op \in {PendingParse(src) : src \in ParserSources}
  /\ events = <<>>
  /\ result = Void
  /\ nOps = 0
  /\ NoAIFormFill

ParseJsonResponse ==
  /\ op.name = "call"
  /\ op' = [op EXCEPT !.name = "parseJsonResponse"]
  /\ result' = parseJsonResponse(op.aiResponse)
  /\ UNCHANGED <<dom, pre, events, nOps, aiFormFill>>

NextParser == ParseJsonResponse

SpecParser == InitParser /\ [][NextParser]_vars

(***************************************************************************)
(* Properties of the response parser.                                      *)
(***************************************************************************)
ParserCalled == op.name = "parseJsonResponse"

\* the response, trimmed and without its fence markers, is not JSON
NotJson == op.source.kind = "malformed" \/ op.source.fence \in {"js", "JSON"}

\* C5: parseJsonResponse returns and never throws, and what it returns for a response
\* that is not parseable as JSON after trimming and fence removal, the empty string
\* included, is the empty mapping.
C5_ParserNeverThrows ==
  ParserCalled => /\ ~result.threw
                  /\ NotJson => result.value = EmptyMapping

\* C5 witness: the text "{ invalid json }" was parsed and the empty mapping came back.
C5_Witness ==
  /\ ParserCalled /\ op.aiResponse = "{ invalid json }"
  /\ result = Returned(EmptyMapping)

SourceKeys == {op.source.members[k].key : k \in 1..Len(op.source.members)}

\* the string the last member of that key stands for
SourceText(key) ==
  LET ms == op.source.members
      last == CHOOSE k \in 1..Len(ms) : ms[k].key = key /\ \A j \in (k + 1)..Len(ms) : ms[j].key # key
  IN  ms[last].text

ExactlyTheSourceObject ==
  /\ ~result.threw
  /\ DOMAIN result.value = SourceKeys
  /\ \A key \in SourceKeys : result.value[key] = SourceText(key)

FenceInside ==
  \E k \in 1..Len(op.source.members) :
    Includes(op.source.members[k].key, Fence) \/ Includes(op.source.members[k].literal, Fence)

LabelOf(forText, c) ==
  IF ~Truthy(forText) /\ c.wrapLabel # Undefined THEN Trim(c.wrapLabel) ELSE forText

\* the descriptor m builds for the control c at index i
DescriptorOf(c, i, isInput) ==
  [element |-> i,
   type |-> IF isInput THEN c.type ELSE IF c.tag = "textarea" THEN "textarea" ELSE "select",
   name |-> c.name,
   placeholder |->
     IF isInput /\ c.type = "checkbox" THEN OrElse(c.value, "checkbox option")
     ELSE IF isInput /\ c.type = "radio" THEN OrElse(c.value, "radio option")
     ELSE IF c.tag = "select" THEN Undefined
     ELSE c.placeholder,
   pattern |-> IF isInput THEN c.pattern ELSE Undefined,
   label |-> LabelOf(IF c.forLabel # Undefined THEN Trim(c.forLabel) ELSE Undefined, c),
   hint |-> IF Truthy(c.hint) THEN c.hint ELSE Undefined,
   options |-> <<>>]

\* m
analyzeField(d, i) == DescriptorOf(d[i], i, d[i].tag = "input")

\* the input types the selector of getFillTargets leaves out
ExcludedInputTypes == {"submit", "reset", "button", "hidden", "image", "file"}

\* Faulty variant of Selected: the selector leaves out only the button types.
Selected_onlyButtons(c) ==
  \/ c.tag = "input" /\ c.type \notin {"submit", "reset", "button"}
  \/ c.tag = "textarea"
  \/ c.tag = "select"

\* the selector of getFillTargets
Selected(c) ==
  \/ c.tag = "input" /\ c.type \notin ExcludedInputTypes
  \/ c.tag = "textarea"
  \/ c.tag = "select"

\* the label of one radio as the options list shows it, "" when it has none
RadioLabelOr(forText, c) ==
  IF forText = "" /\ c.wrapLabel # Undefined THEN Trim(c.wrapLabel) ELSE forText

RadioOptionLabel(c) == RadioLabelOr(IF c.forLabel # Undefined THEN Trim(c.forLabel) ELSE "", c)

\* d.hint += " " + s
AppendHint(hint, s) == (IF hint = Undefined THEN "undefined" ELSE hint) \o " " \o s

RECURSIVE CollectHints(_, _, _, _)
CollectHints(d, group, k, hint) ==
  IF k > Len(group) THEN hint
  ELSE CollectHints(d, group, k + 1,
         IF Truthy(d[group[k]].hint) THEN AppendHint(hint, d[group[k]].hint) ELSE hint)

\* the descriptor of the radios `group` (indices, in document order) of one name,
\* from the descriptor of the first of them
GroupOf(d, group, first) ==
  [first EXCEPT
     !.options = [k \in 1..Len(group) |->
                    [value |-> d[group[k]].value,
                     label |-> OrElse(RadioOptionLabel(d[group[k]]), d[group[k]].value)]],
     !.hint = CollectHints(d, group, 1, first.hint)]

RadioGroupDescriptor(d, group) == GroupOf(d, group, analyzeField(d, group[1]))

SelectedNonRadio(c) == Selected(c) /\ ~IsRadio(c)

NamedRadio(c) == Selected(c) /\ IsRadio(c) /\ c.name # ""

\* the radios of the name of radio i, in document order
RadiosOfName(d, i) ==
  LET SameName(c) == NamedRadio(c) /\ c.name = d[i].name
      Holds(k) == SameName(d[k])
  IN  SelectSeq(Indices(d), Holds)

\* the first radio of each name, in the order the names appear
FirstRadios(d) ==
  LET FirstOfName(i) == NamedRadio(d[i]) /\ \A j \in 1..(i - 1) : ~IsRadio(d[j]) \/ d[j].name # d[i].name
  IN  SelectSeq(Indices(d), FirstOfName)

\* the descriptors of the controls `plain` and of the groups that start at `firsts`
TargetsOf(d, plain, firsts) ==
  [k \in 1..Len(plain) |-> analyzeField(d, plain[k])]
    \o [k \in 1..Len(firsts) |-> RadioGroupDescriptor(d, RadiosOfName(d, firsts[k]))]

\* the selected controls that are no radios, in document order
PlainControls(d) ==
  LET Holds(k) == SelectedNonRadio(d[k])
  IN  SelectSeq(Indices(d), Holds)

\* Faulty variant of getFillTargets: radios are not grouped, every selected control
\* gets a descriptor of its own.
getFillTargets_ungrouped(d) ==
  LET Holds(k) == Selected(d[k])
      selected == SelectSeq(Indices(d), Holds)
  IN  [k \in 1..Len(selected) |-> analyzeField(d, selected[k])]

\* k: the descriptors of the selected non-radio controls in document order, then one
\* descriptor per radio name in the order the names first appear
getFillTargets(d) == TargetsOf(d, PlainControls(d), FirstRadios(d))

\* Faulty variant of getFieldIdentifier: the label takes precedence over the name.
getFieldIdentifier_labelFirst(field) ==
  OrElse(field.label, OrElse(field.name, OrElse(field.placeholder, "unknown")))

\* P
getFieldIdentifier(field) ==
  OrElse(field.name, OrElse(field.label, OrElse(field.placeholder, "unknown")))

(***************************************************************************)
(* The field model builder on its own: forms of up to MaxControls controls *)
(* taken from a pool that has every excluded input type, named and unnamed *)
(* radios, and the other control kinds.                                    *)
(***************************************************************************)
ControlPool ==
  { TextInput("firstName", "", "First name"),
    TextArea("bio", "", ""),
    Select("country", CountryOptions, 1),
    Checkbox("terms", "on", FALSE),
    DateLike("date", "birthday", ""),
    OtherInput("hidden", "csrf", "token"),
    OtherInput("submit", "", "Send"),
    OtherInput("reset", "", "Reset"),
    OtherInput("button", "more", "More"),
    OtherInput("image", "go", ""),
    OtherInput("file", "cv", ""),
    Radio("gender", "m", FALSE, "Male", Undefined),
    Radio("gender", "f", TRUE, Undefined, Undefined),
    Radio("gender", "o", FALSE, "Other", "optional"),
    Radio("size", "s", FALSE, Undefined, "EU sizes"),
    Radio("", "solo", FALSE, Undefined, Undefined) }

RECURSIVE FormsOfLength(_)
FormsOfLength(n) ==
  IF n = 0 THEN {<<>>}
  ELSE {Append(f, c) : f \in FormsOfLength(n - 1), c \in ControlPool}

InitTargets ==
  /\ \E n \in 0..MaxControls : dom \in FormsOfLength(n)
  /\ pre = dom
  /\ op = NoOp
  /\ events = <<>>
  /\ result = Void
  /\ nOps = 0
  /\ NoAIFormFill

\* a scan of the form; the form is only read, so a scan can follow any state
GetFillTargets ==
  /\ op' = [name |-> "getFillTargets"]
  /\ result' = Returned(getFillTargets(dom))
  /\ pre' = dom
  /\ UNCHANGED <<dom, events, nOps, aiFormFill>>

NextTargets == GetFillTargets

SpecTargets == InitTargets /\ [][NextTargets]_vars

(***************************************************************************)
(* Properties of the field model builder.                                  *)
(***************************************************************************)
TargetsCalled == op.name = "getFillTargets"

\* the indices of the radios of the form that carry the name n
RadiosNamed(n) == {i \in 1..Len(dom) : IsRadio(dom[i]) /\ dom[i].name = n}

RadioNames == {dom[i].name : i \in {j \in 1..Len(dom) : IsRadio(dom[j]) /\ dom[j].name # ""}}

\* the j-th radio of name n in document order
NthRadio(n, j) ==
  CHOOSE i \in RadiosNamed(n) : Cardinality({h \in RadiosNamed(n) : h < i}) = j - 1

RadioDescriptors(n) ==
  {k \in 1..Len(result.value) : result.value[k].type = "radio" /\ result.value[k].name = n}

\* C9: for each distinct non-empty radio name of the form there is exactly one
\* descriptor of type radio, its options are the radios of that name in document
\* order, one entry each; no descriptor stands for a radio without a name.
C9_OneDescriptorPerRadioName ==
  TargetsCalled =>
    /\ \A n \in RadioNames :
         /\ Cardinality(RadioDescriptors(n)) = 1
         /\ \A k \in RadioDescriptors(n) :
              /\ Len(result.value[k].options) = Cardinality(RadiosNamed(n))
              /\ \A j \in 1..Len(result.value[k].options) :
                   result.value[k].options[j].value = dom[NthRadio(n, j)].value
    /\ \A k \in 1..Len(result.value) :
         IsRadio(dom[result.value[k].element]) => dom[result.value[k].element].name # ""

\* C9 witness: two radios named gender with an unnamed radio between them gave one
\* descriptor, with the options m and f.
C9_Witness ==
  /\ TargetsCalled /\ Len(dom) = 3
  /\ dom[1].name = "gender" /\ dom[2].value = "solo" /\ dom[3].name = "gender"
  /\ Len(result.value) = 1
  /\ result.value[1].options = <<[value |-> "m", label |-> "Male"], [value |-> "f", label |-> "f"]>>

DescriptorsOf(i) == {k \in 1..Len(result.value) : result.value[k].element = i}

RECURSIVE JoinStrings(_, _)
JoinStrings(strs, sep) ==
  IF Len(strs) = 0 THEN ""
  ELSE IF Len(strs) = 1 THEN strs[1]
  ELSE strs[1] \o sep \o JoinStrings(Tail(strs), sep)

\* the start of a field line: the identifier and the type
FieldLineHead(ident, type) == "- " \o ident \o " (type: " \o type \o ")"

\* the display texts of the options of a select, trimmed, the empty ones left out
SelectTexts(c) ==
  LET NonEmpty(t) == t # ""
  IN  SelectSeq([k \in 1..Len(c.options) |-> Trim(c.options[k].text)], NonEmpty)

RadioTexts(field) ==
  [k \in 1..Len(field.options) |-> OrElse(field.options[k].label, field.options[k].value)]

\* one line of the loop of I
FieldLine(field, d) ==
  FieldLineHead(getFieldIdentifier(field), field.type)
    \o (IF Truthy(field.label) THEN " - Label: \"" \o field.label \o "\"" ELSE "")
    \o (IF Truthy(field.placeholder)
        THEN " - Placeholder: \"" \o field.placeholder \o "\"" ELSE "")
    \o (IF field.type = "select" /\ d[field.element].tag = "select"
        THEN " - Options: [" \o JoinStrings(SelectTexts(d[field.element]), ", ") \o "]" ELSE "")
    \o (IF field.type = "radio" /\ field.options # <<>>
        THEN " - Options: [" \o JoinStrings(RadioTexts(field), ", ") \o "]" ELSE "")
    \o (CASE field.type = "date" -> " - Format: YYYY-MM-DD"
          [] field.type = "datetime-local" -> " - Format: YYYY-MM-DDTHH:MM"
          [] field.type = "time" -> " - Format: HH:MM"
          [] OTHER -> "")
    \o (IF Truthy(field.hint) THEN " - Additional info: " \o field.hint ELSE "")

\* I
buildParsePrompt(fields, unstructuredText, d) ==
  [fields |-> [k \in 1..Len(fields) |-> FieldLine(fields[k], d)],
   text |-> unstructuredText]

\* C without a context: the lines of the prompt; for a checkbox the prompt is replaced
\* by the context, which is undefined, and the request for a random choice
buildFieldPrompt(field) ==
  IF field.type = "checkbox"
  THEN <<"undefined",
         "Randomly return \"true\" or \"false\", no explanations. Dont repeat your choice too often.">>
  ELSE <<"Generate appropriate content for the following form field:", "">>
         \o (IF Truthy(field.label) THEN <<"Field Label: " \o field.label>> ELSE <<>>)
         \o (IF Truthy(field.name) THEN <<"Field Name: " \o field.name>> ELSE <<>>)
         \o <<"Field Type: " \o field.type>>
         \o (IF Truthy(field.placeholder) THEN <<"Placeholder: " \o field.placeholder>> ELSE <<>>)
         \o (IF Truthy(field.pattern) THEN <<"Pattern/Format: " \o field.pattern>> ELSE <<>>)
         \o <<"", "Provide a realistic and appropriate value for this field. Only return the value itself, no explanations.">>

\* the description O assembles from `parts`
SchemaOf(field, t, parts) ==
  [type |-> IF t \in {"number", "range"} THEN "number"
            ELSE IF t \in {"boolean", "checkbox"} THEN "boolean"
            ELSE "string",
   format |-> CASE t = "url" -> "uri"
                [] t = "date" -> "date"
                [] t = "datetime-local" -> "date-time"
                [] t = "time" -> "time"
                [] OTHER -> Undefined,
   pattern |-> IF Truthy(field.pattern) THEN field.pattern ELSE Undefined,
   description |-> IF Len(parts) > 0 THEN JoinStrings(parts, " - ") ELSE Undefined]

\* the schema of one field in O
FieldSchema(field) ==
  SchemaOf(field, field.type,
           (IF Truthy(field.placeholder) THEN <<field.placeholder>> ELSE <<>>)
             \o (IF Truthy(field.hint) THEN <<field.hint>> ELSE <<>>))

\* O: the properties of the schema; a later field replaces an earlier one of its key
generateFormSchema(fields) ==
  LET Key(k) == OrElse(fields[k].name, fields[k].label)
      keyed == {k \in 1..Len(fields) : Truthy(Key(k))}
      Last(key) == CHOOSE k \in keyed : Key(k) = key /\ \A j \in keyed : Key(j) = key => j <= k
  IN  [type |-> "object",
       properties |-> [key \in {Key(k) : k \in keyed} |-> FieldSchema(fields[Last(key)])],
       additionalProperties |-> FALSE]

(***************************************************************************)
(* The orchestrator.  parseAndFillForm runs up to its await in one step    *)
(* and from the provider's answer to its end in another; other operations  *)
(* may run in between.                                                     *)
(***************************************************************************)
Range(s) == {s[k] : k \in 1..Len(s)}

\* a chat request without a format
NoFormat == [type |-> Undefined]

\* Faulty variant of filteredFillTargets: the allow-list is ignored.
filteredFillTargets_unfiltered(fillTargets, selected) == fillTargets

\* the fields parseAndFillForm works on
filteredFillTargets(fillTargets, selected) ==
  LET Allowed(field) == Truthy(field.name) /\ field.name \in Range(selected.names)
  IN  IF selected.defined THEN SelectSeq(fillTargets, Allowed) ELSE fillTargets

\* what provider.chat can do: throw (or reject), resolve to null, or resolve to a
\* response whose content is absent, empty or a text
ChatThrows == [kind |-> "throws", content |-> Undefined]

ChatNull == [kind |-> "null", content |-> Undefined]

ChatContent(content) == [kind |-> "response", content |-> content]

Extracted(data) == [threw |-> FALSE, returned |-> FALSE, data |-> data]

EarlyReturn == [threw |-> FALSE, returned |-> TRUE, data |-> EmptyMapping]

ChatError == [threw |-> TRUE, returned |-> FALSE, data |-> EmptyMapping]

\* the try block of parseAndFillForm: reading content of null throws a TypeError
TryExtract(outcome) ==
  IF outcome.kind \in {"throws", "null"} THEN ChatError
  ELSE IF ~Truthy(outcome.content) THEN EarlyReturn
  ELSE Extracted(parseJsonResponse(outcome.content).value)

\* Faulty variant of ExtractData: no catch clause, the provider's error propagates.
ExtractData_uncaught(outcome) == TryExtract(outcome)

\* the catch clause of parseAndFillForm returns
CatchExtract(try) == IF try.threw THEN EarlyReturn ELSE try

\* the try statement of parseAndFillForm
ExtractData(outcome) == CatchExtract(TryExtract(outcome))

\* the names every plain object inherits from Object.prototype
ObjectPrototypeNames ==
  { "constructor", "toString", "toLocaleString", "valueOf", "hasOwnProperty",
    "isPrototypeOf", "propertyIsEnumerable", "__proto__", "__defineGetter__",
    "__defineSetter__", "__lookupGetter__", "__lookupSetter__" }

\* Faulty variant of PropertyOf: a name that is no key yields the value of some key.
PropertyOf_someEntry(extractedData, fieldName) ==
  IF DOMAIN extractedData # {}
  THEN [kind |-> "string",
        value |-> IF fieldName \in DOMAIN extractedData THEN extractedData[fieldName]
                  ELSE extractedData[CHOOSE key \in DOMAIN extractedData : TRUE]]
  ELSE [kind |-> "undefined", value |-> Undefined]

\* extractedData[fieldName]
PropertyOf(extractedData, fieldName) ==
  IF fieldName \in DOMAIN extractedData
  THEN [kind |-> "string", value |-> extractedData[fieldName]]
  ELSE IF fieldName \in ObjectPrototypeNames THEN [kind |-> "inherited", value |-> Undefined]
  ELSE [kind |-> "undefined", value |-> Undefined]

\* the fill loop over the first n fields; a value that is not a string makes
\* setFieldValue throw at value.trim(), which the loop catches
RECURSIVE FillFields(_, _, _, _, _)
RECURSIVE FillFields_lastFirst(_, _, _, _, _)

\* the writes so far, followed by the write w of one more field
FillNext(done, w) == Written(w.dom, done.ev \o w.ev)

\* the body of the loop for a field whose identifier is fieldName and whose looked-up
\* value is v, after the writes `done`
FillField(done, field, rt, fieldName, v) ==
  IF Truthy(fieldName) /\ v.kind = "string" /\ v.value # ""
  THEN FillNext(done, setFieldValue(done.dom, field.element, v.value, rt))
  ELSE done

FillIdentified(done, field, extractedData, rt, fieldName) ==
  FillField(done, field, rt, fieldName, PropertyOf(extractedData, fieldName))

\* Faulty variant of FillFields: the loop runs from the last field to the first.
FillFields_lastFirst(d, fields, n, extractedData, rt) ==
  IF n = 0 THEN Written(d, <<>>)
  ELSE FillIdentified(FillFields_lastFirst(d, Tail(fields), n - 1, extractedData, rt),
                      fields[1], extractedData, rt, getFieldIdentifier(fields[1]))

FillFields(d, fields, n, extractedData, rt) ==
  IF n = 0 THEN Written(d, <<>>)
  ELSE FillIdentified(FillFields(d, fields, n - 1, extractedData, rt), fields[n],
                      extractedData, rt, getFieldIdentifier(fields[n]))

(***************************************************************************)
(* Forms, allow-lists, providers and provider answers the orchestrator is  *)
(* exercised on.                                                           *)
(***************************************************************************)
PersonForm ==
  <<[TextInput("firstName", "", "") EXCEPT !.forLabel = "First name"],
    TextInput("lastName", "Doe", ""),
    Checkbox("terms", "on", FALSE), TextInput("toString", "kept", "")>>

\* a field known by its label only, one by its placeholder only, one by nothing
AnonymousForm ==
  <<[TextInput("", "", "") EXCEPT !.wrapLabel = " City "], TextInput("", "", "Your phone"),
    TextInput("", "old", "")>>

ChoiceForm ==
  <<Select("country", CountryOptions, 2), Radio("gender", "m", TRUE, "Male", Undefined),
    OtherInput("hidden", "csrf", "token"), Radio("gender", "f", FALSE, "Female", Undefined)>>

DateForm == <<DateLike("date", "birthday", "2020-01-31"), TextArea("bio", "", "About you")>>

FillForms == {PersonForm, AnonymousForm, ChoiceForm, DateForm}

\* targetFields and the arguments of setFields
FieldLists ==
  {NoFieldNames, FieldNames(<<>>), FieldNames(<<"firstName">>),
   FieldNames(<<"lastName", "country", "bio">>), FieldNames(<<"gender", "nickname">>)}

\* the provider the orchestrator is constructed with
OllamaProvider == [name |-> "ollama", supportsStructuredResponses |-> TRUE]

\* a built-in provider and a custom one that keeps the base class's default
Providers ==
  {OllamaProvider,
   [name |-> "custom", supportsStructuredResponses |-> FALSE]}

SourceTexts == {"Jane Roe lives in Germany."}

\* answers that are not JSON, with or without their fence
UnparseableAnswers ==
  {"{ invalid json }", "I could not find any data.", "'''json\n{\"firstName\": \"Jane\",}\n'''"}

\* an answer whose values are JSON null and the empty string
NullsAnswer == "{\"firstName\":null,\"lastName\":\"\",\"terms\":null}"

\* an answer that gives the checkbox terms the JSON boolean b
BooleanAnswer(b) == IF b THEN "{\"terms\":true}" ELSE "{\"terms\": false}"

ParseableAnswers ==
  { NullsAnswer, BooleanAnswer(TRUE), BooleanAnswer(FALSE),
    "{\"firstName\":\"Jane\",\"lastName\":\"Roe\",\"terms\":\"true\"}",
    "'''json\n{\"firstName\": \"Jane\", \"nickname\": \"JJ\"}\n'''",
    "{\"firstName\":\"\",\"lastName\":\"N/A\",\"terms\":\"no\"}",
    "{\"country\":\"Germany\",\"gender\":\"f\",\"csrf\":\"stolen\"}",
    "{\"City\":\"Ulm\",\"Your phone\":\"123\",\"unknown\":\"X\"}",
    "{\"City\":\"Bonn\",\"Your phone\":\"456\"}",
    "{\"birthday\":\"1990-05-01\",\"bio\":\"Line 1\"}",
    "{\"lastName\":\"Roe\",\"bio\":\"Student\",\"birthday\":\"soon\"}",
    "{\"First name\":\"Janet\",\"About you\":\"Hi\"}",
    "{}" }

ChatOutcomes ==
  {ChatThrows, ChatNull, ChatContent(Undefined), ChatContent("")}
    \cup {ChatContent(t) : t \in UnparseableAnswers \cup ParseableAnswers}

\* what the provider answers to the prompt of fillSingleField
SingleAnswers ==
  {" Jane \n", "true", "{\"firstName\":\"Jane\"}", "N/A", "2023-07-10"}

SingleOutcomes ==
  {ChatThrows, ChatNull, ChatContent(Undefined), ChatContent("")}
    \cup {ChatContent(t) : t \in SingleAnswers}

\* the result of the try statement for each answer the provider can give
Extractions == [outcome \in ChatOutcomes |-> ExtractData(outcome)]

\* the hosts the fills run on: the default one, one west of Greenwich and one whose
\* Date.parse reads free text
FillRuntimes ==
  {DefaultRuntime, [DefaultRuntime EXCEPT !.tz = 0 - 5],
   [DefaultRuntime EXCEPT !.lenient = TRUE, !.parsed = DateOf(2001, 1, 1, 0, 0)]}

\* the result of a call that has not settled
Pending == [threw |-> FALSE, value |-> "<pending>"]

Rejected == [threw |-> TRUE, value |-> Undefined]

(***************************************************************************)
(* The orchestrator's operations.                                          *)
(***************************************************************************)
\* the targetFields option of the constructor
TargetFieldOptions == {NoFieldNames, FieldNames(<<>>)}

\* the constructor: targetFields is stored as given
InitFill ==
  /\ dom \in FillForms
  /\ pre = dom
  /\ op = NoOp
  /\ events = <<>>
  /\ result = Void
  /\ nOps = 0
  /\ selectedFields \in TargetFieldOptions
  /\ provider = OllamaProvider
  /\ calls = <<>>
  /\ chats = [p \in Providers |-> 0]

\* the request parseAndFillForm hands to provider.chat
ChatRequest(fields, unstructuredText, d, structured) ==
  [system |-> "PARSE_EXTRACT",
   prompt |-> buildParsePrompt(fields, unstructuredText, d),
   format |-> IF structured THEN generateFormSchema(fields) ELSE NoFormat]

\* this.provider.chat(chatRequest): the provider's chat is invoked and the call
\* suspends at the await with its element or fields and its request
Suspend(method, el, fields, chatRequest) ==
  /\ chats' = [chats EXCEPT ![provider] = @ + 1]
  /\ calls' = Append(calls, [method |-> method, el |-> el, fields |-> fields,
                             chatRequest |-> chatRequest, provider |-> provider.name,
                             selected |-> selectedFields])
  /\ op' = [name |-> method, step |-> "call", selected |-> selectedFields,
            chatRequest |-> chatRequest, provider |-> provider]

SendRequest(fields, unstructuredText) ==
  Suspend("parseAndFillForm", 0, fields,
          ChatRequest(fields, unstructuredText, dom, provider.supportsStructuredResponses))

\* parseAndFillForm up to the await of provider.chat
ParseAndFillForm(unstructuredText) ==
  /\ nOps < MaxOps
  /\ Len(calls) < MaxInFlight
  /\ SendRequest(filteredFillTargets(getFillTargets(dom), selectedFields), unstructuredText)
  /\ result' = Pending
  /\ pre' = dom
  /\ events' = <<>>
  /\ nOps' = nOps + 1
  /\ UNCHANGED <<dom, selectedFields, provider>>

\* Faulty variant of Settle: the writes of a call that ends while another is in flight
\* are dropped.
Settle_dropsWhenBusy(call, outcome, x, w) ==
  /\ dom' = IF Len(calls) > 1 THEN dom ELSE w.dom
  /\ events' = IF Len(calls) > 1 THEN <<>> ELSE w.ev
  /\ result' = IF x.threw THEN Rejected ELSE Void
  /\ op' = [name |-> "parseAndFillForm", step |-> "settle", selected |-> call.selected,
            chatRequest |-> call.chatRequest, fields |-> call.fields,
            outcome |-> outcome, filled |-> ~x.threw /\ ~x.returned,
            extractedData |-> x.data]

\* the end of the call: its writes w, and whether its promise rejects
Settle(call, outcome, x, w) ==
  /\ dom' = w.dom
  /\ events' = w.ev
  /\ result' = IF x.threw THEN Rejected ELSE Void
  /\ op' = [name |-> "parseAndFillForm", step |-> "settle", selected |-> call.selected,
            chatRequest |-> call.chatRequest, fields |-> call.fields,
            outcome |-> outcome, filled |-> ~x.threw /\ ~x.returned,
            extractedData |-> x.data]

\* Faulty variant of Continue: the allow-list is read again after the await.
Continue_rereadsAllowList(call, outcome, x, rt) ==
  Settle(call, outcome, x,
         IF x.threw \/ x.returned THEN Written(dom, <<>>)
         ELSE LET fields == filteredFillTargets(getFillTargets(dom), selectedFields)
              IN  FillFields(dom, fields, Len(fields), x.data, rt))

\* the statements after the try statement, for its result x
Continue(call, outcome, x, rt) ==
  Settle(call, outcome, x,
         IF x.threw \/ x.returned THEN Written(dom, <<>>)
         ELSE FillFields(dom, call.fields, Len(call.fields), x.data, rt))

\* parseAndFillForm from the settling of provider.chat to its end, for the k-th
\* suspended call
ChatSettles(k, outcome, rt) ==
  /\ k \in 1..Len(calls)
  /\ calls[k].method = "parseAndFillForm"
  /\ (\E i \in 1..Len(dom) : IsDateLike(dom[i])) \/ rt = DefaultRuntime
  /\ Continue(calls[k], outcome, Extractions[outcome], rt)
  /\ calls' = SubSeq(calls, 1, k - 1) \o SubSeq(calls, k + 1, Len(calls))
  /\ pre' = dom
  /\ UNCHANGED <<nOps, selectedFields, provider, chats>>

\* the request fillSingleField hands to provider.chat
FieldRequest(d, i) ==
  [system |-> "FIELD_FILL", prompt |-> buildFieldPrompt(analyzeField(d, i)), format |-> NoFormat]

\* fillSingleField up to the await of provider.chat, for the control i
FillSingleField(i) ==
  /\ nOps < MaxOps
  /\ Len(calls) < MaxInFlight
  /\ Suspend("fillSingleField", i, <<>>, FieldRequest(dom, i))
  /\ result' = Pending
  /\ pre' = dom
  /\ events' = <<>>
  /\ nOps' = nOps + 1
  /\ UNCHANGED <<dom, selectedFields, provider>>

\* the try block of fillSingleField: reading content of null throws a TypeError;
\* content that is absent or empty is not applied
TryFillSingle(d, i, outcome, rt) ==
  IF outcome.kind \in {"throws", "null"} THEN [threw |-> TRUE, w |-> Written(d, <<>>)]
  ELSE IF ~Truthy(outcome.content) THEN [threw |-> FALSE, w |-> Written(d, <<>>)]
  ELSE [threw |-> FALSE, w |-> setFieldValue(d, i, Trim(outcome.content), rt)]

\* Faulty variant of FillSingle: no catch clause, the provider's error propagates.
FillSingle_uncaught(d, i, outcome, rt) == TryFillSingle(d, i, outcome, rt)

\* the try statement of fillSingleField: the catch clause logs and goes on
FillSingle(d, i, outcome, rt) == [TryFillSingle(d, i, outcome, rt) EXCEPT !.threw = FALSE]

SettleSingle(call, outcome, rt, x) ==
  /\ dom' = x.w.dom
  /\ events' = x.w.ev
  /\ result' = IF x.threw THEN Rejected ELSE Void
  /\ op' = [name |-> "fillSingleField", step |-> "settle", selected |-> call.selected,
            chatRequest |-> call.chatRequest, el |-> call.el, outcome |-> outcome,
            rt |-> rt]

\* fillSingleField from the settling of provider.chat to its end, for the k-th
\* suspended call
SingleChatSettles(k, outcome, rt) ==
  /\ k \in 1..Len(calls)
  /\ calls[k].method = "fillSingleField"
  /\ IsDateLike(dom[calls[k].el]) \/ rt = DefaultRuntime
  /\ SettleSingle(calls[k], outcome, rt, FillSingle(dom, calls[k].el, outcome, rt))
  /\ calls' = SubSeq(calls, 1, k - 1) \o SubSeq(calls, k + 1, Len(calls))
  /\ pre' = dom
  /\ UNCHANGED <<nOps, selectedFields, provider, chats>>

\* setProvider: this.provider = provider
SetProvider(p) ==
  /\ nOps < MaxOps
  /\ provider' = p
  /\ op' = [name |-> "setProvider", provider |-> p]
  /\ result' = Void
  /\ pre' = dom
  /\ events' = <<>>
  /\ nOps' = nOps + 1
  /\ UNCHANGED <<dom, selectedFields, calls, chats>>

\* Faulty variant of SetFields: an empty array clears the allow-list.
SetFields_emptyClears(fields) ==
  /\ nOps < MaxOps
  /\ selectedFields' = IF fields.names = <<>> THEN NoFieldNames ELSE fields
  /\ op' = [name |-> "setFields", fields |-> fields]
  /\ result' = Void
  /\ pre' = dom
  /\ events' = <<>>
  /\ nOps' = nOps + 1
  /\ UNCHANGED <<dom, provider, calls, chats>>

\* setFields: this.selectedFields = fields || undefined
SetFields(fields) ==
  /\ nOps < MaxOps
  /\ selectedFields' = fields
  /\ op' = [name |-> "setFields", fields |-> fields]
  /\ result' = Void
  /\ pre' = dom
  /\ events' = <<>>
  /\ nOps' = nOps + 1
  /\ UNCHANGED <<dom, provider, calls, chats>>

NextFill ==
  \/ \E t \in SourceTexts : ParseAndFillForm(t)
  \/ \E k \in 1..Len(calls), outcome \in ChatOutcomes, rt \in FillRuntimes :
       ChatSettles(k, outcome, rt)
  \/ \E fields \in FieldLists : SetFields(fields)
  \/ \E i \in 1..Len(dom) : FillSingleField(i)
  \/ \E k \in 1..Len(calls), outcome \in SingleOutcomes, rt \in FillRuntimes :
       SingleChatSettles(k, outcome, rt)
  \/ \E p \in Providers : SetProvider(p)

SpecFill == InitFill /\ [][NextFill]_vars

(***************************************************************************)
(* Properties of the orchestrator.  pre holds the controls as they were    *)
(* before the last step of a call; a call takes its first step when it is  *)
(* made and its second when the provider's answer arrives.                 *)
(***************************************************************************)
FillCalled == op.name = "parseAndFillForm"

FillSettled == FillCalled /\ op.step = "settle"

NothingChanged == Len(dom) = Len(pre) /\ \A k \in 1..Len(dom) : Unchanged(k)

\* the provider threw, answered null, answered without content or with empty
\* content, or answered with a text that is not JSON
FailedAnswer ==
  \/ op.outcome.kind \in {"throws", "null"}
  \/ op.outcome.content \in {Undefined, ""} \cup UnparseableAnswers

\* C2: a parseAndFillForm call whose provider throws, answers null or without
\* content, or answers with unparseable text resolves, and neither of its steps
\* changes the value, the selection or the checked state of any control.
C2_FailedFillChangesNothing ==
  /\ (FillCalled /\ op.step = "call") => NothingChanged
  /\ (FillSettled /\ FailedAnswer) => (~result.threw /\ NothingChanged)

\* C2 witness: the provider answered "{ invalid json }" for a form whose fields the
\* answer could have named, and the call resolved.
C2_Witness ==
  /\ FillSettled /\ op.outcome = ChatContent("{ invalid json }")
  /\ Len(op.fields) = 4 /\ result = Void /\ dom = PersonForm

StartsWith(s, prefix) == Len(s) >= Len(prefix) /\ SubSeq(s, 1, Len(prefix)) = prefix

AllowedNames == Range(op.selected.names)

\* C3: with an allow-list set when the call is made, every line of the prompt's field
\* section is the line of a control whose name is in the list, and a control whose
\* name is not in the list keeps its state whatever the answer carries.
C3_AllowListBoundsPromptAndWrites ==
  (FillCalled /\ op.selected.defined) =>
    /\ \A n \in 1..Len(op.chatRequest.prompt.fields) :
         \E i \in 1..Len(pre) :
           /\ pre[i].name \in AllowedNames
           /\ StartsWith(op.chatRequest.prompt.fields[n], "- " \o pre[i].name \o " (type: ")
    /\ \A i \in 1..Len(dom) : pre[i].name \notin AllowedNames => Unchanged(i)

\* C3 witness: with the allow-list [firstName], an answer that carries firstName,
\* lastName and terms filled firstName and left the other two as they were.
C3_Witness ==
  /\ FillSettled /\ op.selected = FieldNames(<<"firstName">>)
  /\ "lastName" \in DOMAIN op.extractedData /\ "terms" \in DOMAIN op.extractedData
  /\ Len(op.chatRequest.prompt.fields) = 1
  /\ dom[1].value = "Jane" /\ dom[2].value = "Doe" /\ ~dom[3].checked

\* the controls a descriptor stands for: its element, and for a radio group every
\* radio of the group
ControlsOf(field) ==
  {i \in 1..Len(pre) :
     \/ i = field.element
     \/ IsRadio(pre[i]) /\ IsRadio(pre[field.element]) /\ pre[i].name = pre[field.element].name}

\* with ident[k] the identifier of field k: every field whose identifier is no key of
\* the parsed mapping kept its state, and every control that changed belongs to a
\* field whose identifier is a key
OnlyKeyedFieldsWritten(ident) ==
  /\ ~result.threw
  /\ \A k \in 1..Len(op.fields) :
       ident[k] \notin DOMAIN op.extractedData
         => \A i \in ControlsOf(op.fields[k]) : Unchanged(i)
  /\ \A i \in 1..Len(dom) :
       ~Unchanged(i) => \E k \in 1..Len(op.fields) :
                          /\ ident[k] \in DOMAIN op.extractedData
                          /\ i \in ControlsOf(op.fields[k])

\* the identifier as the claim gives it: name, else label, else placeholder
NameLabelPlaceholder(field) == OrElse(field.name, OrElse(field.label, field.placeholder))

NameLabelPlaceholderUnknown(field) ==
  OrElse(field.name, OrElse(field.label, OrElse(field.placeholder, "unknown")))

FillMethods == {"parseAndFillForm", "fillSingleField"}

\* the last step made a call, up to its await
CallMade == op.name \in FillMethods /\ op.step = "call"

\* the last step ran a call from the provider's answer to its end
CallSettled == op.name \in FillMethods /\ op.step = "settle"

\* the controls the assignments of the last step went to, in the order they were made
AssignedControls ==
  LET assignments == SelectSeq(events, IsAssignment)
  IN  [n \in 1..Len(assignments) |-> assignments[n].el]

\* the place in the field model of the field that control i belongs to
FieldOf(i) == CHOOSE k \in 1..Len(op.fields) : i \in ControlsOf(op.fields[k])

\* the assignments of a multi-field fill went to controls of the call's fields, one
\* field after the other in the order of the field model
WrittenInFieldOrder ==
  FillSettled =>
    /\ \A n \in 1..Len(AssignedControls) :
         \E k \in 1..Len(op.fields) : AssignedControls[n] \in ControlsOf(op.fields[k])
    /\ \A m, n \in 1..Len(AssignedControls) :
         m < n => FieldOf(AssignedControls[m]) < FieldOf(AssignedControls[n])

\* a step that makes a call invokes the chat of the provider that is active then, once,
\* and writes nothing; no other step invokes a chat
ChatInvokedByCallOnly ==
  IF CallMade'
  THEN /\ chats' = [chats EXCEPT ![provider] = @ + 1]
       /\ op'.provider = provider
       /\ dom' = dom /\ events' = <<>>
  ELSE chats' = chats

\* C12: every parseAndFillForm call and every fillSingleField call invokes the chat of
\* the active provider exactly once: when the call is made and never again, whatever
\* the answer is; a call writes to the DOM only in the step that follows the answer,
\* and a multi-field fill writes its fields one after another in field-model order.
C12_OneChatThenOrderedWrites ==
  [][ChatInvokedByCallOnly /\ WrittenInFieldOrder']_vars

\* C12 witness: one chat was invoked, its answer carried three fields of the form, and
\* the three controls were assigned in the order of the field model.
C12_Witness ==
  /\ FillSettled /\ AssignedControls = <<1, 2, 3>>
  /\ chats[OllamaProvider] = 1 /\ calls = <<>>

SingleSettled == op.name = "fillSingleField" /\ op.step = "settle"

\* the provider gave no content: it threw, answered null, or answered with content
\* that is absent or empty
NoContent == op.outcome.kind \in {"throws", "null"} \/ op.outcome.content \in {Undefined, ""}

\* C13: a fillSingleField call resolves whatever the provider does; when the chat
\* throws or gives null or empty content no control changes and nothing is assigned;
\* when content is returned, the controls and the event log are those of
\* setFieldValue called on the target with the trimmed content, taken as text.
C13_SingleFieldNeverRejects ==
  SingleSettled =>
    /\ ~result.threw
    /\ NoContent => (NothingChanged /\ events = <<>>)
    /\ ~NoContent =>
         /\ dom = setFieldValue(pre, op.el, Trim(op.outcome.content), op.rt).dom
         /\ events = setFieldValue(pre, op.el, Trim(op.outcome.content), op.rt).ev

\* C13 witness: the chat threw for a text input holding a value; the call resolved and
\* the value is still there.
C13_Witness ==
  /\ SingleSettled /\ op.outcome = ChatThrows /\ result = Void
  /\ dom[op.el].type = "text" /\ dom[op.el].value = "Doe"

(***************************************************************************)
(* Construction.  AIFormFill is constructed with a provider instance or    *)
(* with a provider name and options; initializeAFFQuick constructs one     *)
(* from the data-aff-provider attribute of the form.                       *)
(***************************************************************************)
\* affConfig
affConfig ==
  [ollama |-> [apiEndpoint |-> "http://localhost:11434", model |-> "gemma3:4b"],
   openai |-> [apiEndpoint |-> "http://localhost:5173/api", model |-> "gpt-5-nano"],
   perplexity |-> [apiEndpoint |-> "http://localhost:5173/api", model |-> "sonar"],
   timeout |-> 30000]

\* the options of the constructor; absent members are Undefined
Options(targetFields, apiEndpoint, model, timeout) ==
  [targetFields |-> targetFields, apiEndpoint |-> apiEndpoint, model |-> model,
   timeout |-> timeout]

NoOptions == Options(NoFieldNames, Undefined, Undefined, 0)

\* a provider instance: the class it was made by and what its constructor stored
ProviderInstance(providerName, structured, apiEndpoint, model, timeout) ==
  [name |-> providerName, supportsStructuredResponses |-> structured,
   apiEndpoint |-> apiEndpoint, selectedModel |-> model, timeout |-> timeout]

\* the constructors of the built-in providers: a member of the config that is falsy
\* gives way to the default of the provider
BuiltInProvider(providerName, defaults, config) ==
  ProviderInstance(providerName, TRUE,
                   OrElse(config.apiEndpoint, defaults.apiEndpoint),
                   OrElse(config.model, defaults.model),
                   IF config.timeout # 0 THEN config.timeout ELSE affConfig.timeout)

LocalOllamaProvider(config) == BuiltInProvider("ollama", affConfig.ollama, config)

OpenAIProvider(config) == BuiltInProvider("openai", affConfig.openai, config)

PerplexityProvider(config) == BuiltInProvider("perplexity", affConfig.perplexity, config)

\* the own keys of providerFactories
FactoryNames == {"ollama", "openai", "perplexity"}

\* what a call of providerFactories[providerName]() does for a name that is no own key:
\* a member inherited from Object.prototype is called when it is a function, and
\* calling anything else throws a TypeError
InheritedFactory(providerName) ==
  CASE providerName = "constructor" -> [threw |-> FALSE, value |-> "<empty object>"]
    [] providerName \in {"toString", "toLocaleString"} ->
         [threw |-> FALSE, value |-> "[object Object]"]
    [] providerName = "valueOf" -> [threw |-> FALSE, value |-> "<providerFactories>"]
    [] providerName \in {"hasOwnProperty", "isPrototypeOf", "propertyIsEnumerable"} ->
         [threw |-> FALSE, value |-> "false"]
    [] OTHER -> [threw |-> TRUE, value |-> Undefined]

\* the wording of the TypeError is the engine's
NotAFunctionMessages ==
  {"providerFactories[providerName] is not a function",
   "providerFactories[providerName] is not a function. (In 'providerFactories[providerName]()', 'providerFactories[providerName]' is undefined)"}

TypeError(message) == [threw |-> TRUE, value |-> [name |-> "TypeError", message |-> message]]

\* the providerConfig constructProviderWithName hands to the factory
ProviderConfig(options) ==
  [apiEndpoint |-> OrElse(options.apiEndpoint, ""), model |-> OrElse(options.model, ""),
   timeout |-> options.timeout]

\* constructProviderWithName: the name is the key into providerFactories as it is given
constructProviderWithName(providerName, options, message) ==
  CASE providerName = "ollama" -> Returned(LocalOllamaProvider(ProviderConfig(options)))
    [] providerName = "openai" -> Returned(OpenAIProvider(ProviderConfig(options)))
    [] providerName = "perplexity" -> Returned(PerplexityProvider(ProviderConfig(options)))
    [] OTHER -> IF InheritedFactory(providerName).threw THEN TypeError(message)
                ELSE Returned(InheritedFactory(providerName).value)

\* a provider of the application's own, kept on the base class's defaults
CustomProvider == ProviderInstance("custom", FALSE, "", "", 30000)

\* the names the constructor is exercised on: the supported ones, letter-case
\* variants of them, names of no provider and names every object inherits
ProviderNameInputs ==
  {"ollama", "openai", "perplexity", "Ollama", "OpenAI", "Perplexity", "OLLAMA",
   "gemini", "", "constructor", "toString", "__proto__"}

OptionInputs ==
  {NoOptions}
    \cup {Options(f, e, m, t) : f \in {NoFieldNames, FieldNames(<<"firstName">>)},
                                e \in {Undefined, "http://proxy.test/api"},
                                m \in {Undefined, "", "llama3"}, t \in {0, 5000}}

\* the data-aff-provider attribute of the form: absent, or a string
ProviderAttributes == {Undefined} \cup ProviderNameInputs

InitConstruct ==
  /\ dom = <<>>
  /\ pre = <<>>
  /\ op = NoOp
  /\ events = <<>>
  /\ result = Void
  /\ nOps = 0
  /\ NoAIFormFill

\* the outcome of a constructor that got the provider r: the fields of the instance
Constructed(r, options) ==
  /\ result' = IF r.threw THEN r ELSE Void
  /\ provider' = IF r.threw THEN Undefined ELSE r.value
  /\ selectedFields' = IF r.threw THEN NoFieldNames ELSE options.targetFields
  /\ nOps' = nOps + 1
  /\ UNCHANGED <<dom, pre, events, calls, chats>>

\* new AIFormFill(providerName, options)
NewByName(providerName, options, message) ==
  /\ op = NoOp
  /\ op' = [name |-> "new AIFormFill", by |-> "name", providerName |-> providerName,
            options |-> options]
  /\ Constructed(constructProviderWithName(providerName, options, message), options)

\* new AIFormFill(providerInstance, options)
NewByInstance(instance, options) ==
  /\ op = NoOp
  /\ op' = [name |-> "new AIFormFill", by |-> "instance", providerName |-> instance.name,
            options |-> options]
  /\ Constructed(Returned(instance), options)

\* initializeAFFQuick, for the data-aff-provider attribute of the form: an absent or
\* empty attribute stands for "ollama"; the options carry no targetFields
InitializeAFFQuick(attribute, message) ==
  /\ op = NoOp
  /\ op' = [name |-> "initializeAFFQuick", by |-> "name",
            providerName |-> OrElse(attribute, "ollama"), options |-> NoOptions]
  /\ Constructed(constructProviderWithName(OrElse(attribute, "ollama"), NoOptions, message),
                 NoOptions)

NextConstruct ==
  \/ \E n \in ProviderNameInputs, o \in OptionInputs, m \in NotAFunctionMessages :
       NewByName(n, o, m)
  \/ \E o \in OptionInputs : NewByInstance(CustomProvider, o)
  \/ \E a \in ProviderAttributes, m \in NotAFunctionMessages : InitializeAFFQuick(a, m)

SpecConstruct == InitConstruct /\ [][NextConstruct]_vars

(***************************************************************************)
(* Properties of construction.                                             *)
(***************************************************************************)
ConstructedByName == op.name \in {"new AIFormFill", "initializeAFFQuick"} /\ op.by = "name"

\* the provider names the documentation lists
SupportedNames == {"ollama", "openai", "perplexity"}

\* C14: constructing with a name that is not one of the supported names throws, no
\* provider is created, and the message of the error lists the valid provider names.
C14_UnsupportedNameThrowsListingNames ==
  (ConstructedByName /\ op.providerName \notin SupportedNames) =>
    /\ result.threw
    /\ provider = Undefined
    /\ \A n \in SupportedNames : Includes(result.value.message, n)

\* C15: a name that is a supported name in any letter case yields an instance whose
\* provider is the one of that name.
C15_NamesAcceptedInAnyCase ==
  (ConstructedByName /\ ToLowerCase(op.providerName) \in SupportedNames) =>
    /\ ~result.threw
    /\ provider.name = ToLowerCase(op.providerName)

\* the field has no name, no label and no placeholder
AnonymousField(field) ==
  ~Truthy(field.name) /\ ~Truthy(field.label) /\ ~Truthy(field.placeholder)

\* the fields of the form that have no name, no label and no placeholder
AnonymousFields == SelectSeq(getFillTargets(pre), AnonymousField)

\* control i was assigned nothing by the last step and is as it was
NotWritten(i) == Unchanged(i) /\ \A n \in 1..Len(AssignedControls) : AssignedControls[n] # i

ResolvedLabel(c) ==
  IF c.forLabel # Undefined \/ c.wrapLabel # Undefined THEN getRadioLabel(c) ELSE c.value

\* a radio group inside a form was written with an input that is no "no data" word
RadioGroupWritten ==
  /\ WriterCalled /\ IsRadio(pre[op.el]) /\ pre[op.el].name # ""
  /\ NormalizedInput \notin NoDataWords /\ ~isNoValue(NormalizedInput)

\* the value or the resolved label of radio k is exactly the input
ExactRadio(k) ==
  \/ ToLowerCase(pre[k].value) = NormalizedInput
  \/ ToLowerCase(ResolvedLabel(pre[k])) = NormalizedInput

\* the members of the written group that match the input exactly, in document order
ExactMembers == SelectSeq(GroupMembers, ExactRadio)

\* C18: when a member of a radio group matches the input exactly by its value or its
\* resolved label, the first such member in document order is the one that is checked,
\* also when an earlier member contains the input or is contained in it.
C18_ExactRadioBeforePartial ==
  (RadioGroupWritten /\ ExactMembers # <<>>)
    => /\ dom[ExactMembers[1]].checked
       /\ AssignedControls = <<ExactMembers[1]>>

\* C19: a write to a radio group with an input that is in no relation (equal,
\* containing, contained) with the value or the resolved label of any member leaves the
\* checked state of every member as it was, in groups with and without label elements.
C19_UnmatchedRadioGroupUnchanged ==
  (/\ RadioGroupWritten
   /\ \A n \in 1..Len(GroupMembers) :
        /\ ~RelatedToInput(ToLowerCase(pre[GroupMembers[n]].value))
        /\ ~RelatedToInput(ToLowerCase(ResolvedLabel(pre[GroupMembers[n]]))))
    => \A n \in 1..Len(GroupMembers) :
         dom[GroupMembers[n]].checked = pre[GroupMembers[n]].checked

\* s names a choice and is the input, contains it or is contained in it
NamesRelatedChoice(s) == s # "" /\ RelatedToInput(s)

\* C20: a write to a select with an input that is in no relation (equal, containing,
\* contained) with a value or a display text that names a choice leaves the selected
\* option as it was, also in a select with a placeholder option whose value is empty.
C20_UnmatchedSelectUnchanged ==
  (/\ WriterCalled /\ pre[op.el].tag = "select"
   /\ NormalizedInput \notin NoDataWords /\ ~isNoValue(NormalizedInput)
   /\ \A n \in 1..Len(pre[op.el].options) :
        /\ ~NamesRelatedChoice(ToLowerCase(pre[op.el].options[n].value))
        /\ ~NamesRelatedChoice(ToLowerCase(pre[op.el].options[n].text)))
    => dom[op.el].sel = pre[op.el].sel


(***************************************************************************)
(* Times and dates: what a write to a time or a date input leaves in it.   *)
(***************************************************************************)
\* the writer was called on an input of the given type with a value that is no
\* "no data" word
DateLikeWritten(type) ==
  /\ WriterCalled /\ pre[op.el].tag = "input" /\ pre[op.el].type = type
  /\ NormalizedInput \notin NoDataWords /\ ~isNoValue(NormalizedInput)

\* the h:mm, with its am or pm, that the input of the last call contains
TimeInInput == TimeMatch(Trim(op.value))

\* C21: a write to a time input of a value that contains h:mm, optionally followed by
\* am or pm, leaves HH:MM in the input, HH being h + 12 for pm and h < 12, 00 for am
\* and h = 12, and h otherwise, and what is left is a valid time of the 24-hour clock;
\* a value that contains no h:mm leaves the input as it was.
C21_TimeWrittenAsValid24Hour ==
  DateLikeWritten("time") =>
    IF TimeInInput.ok
    THEN /\ dom[op.el].value =
              Pad2(CASE TimeInInput.ampm = "pm" /\ TimeInInput.h < 12 -> TimeInInput.h + 12
                     [] TimeInInput.ampm = "am" /\ TimeInInput.h = 12 -> 0
                     [] OTHER -> TimeInInput.h) \o ":" \o TimeInInput.mm
         /\ ValidTimeString(dom[op.el].value)
    ELSE dom[op.el].value = pre[op.el].value /\ events = <<>>

\* the three numbers of a delimited triplet a/b/c
TripletNumbers(r) ==
  LET sh == CHOOSE x \in TripletShapes(r) : TRUE
  IN  [a |-> ParseInt(SubSeq(r, 1, sh[1])),
       b |-> ParseInt(SubSeq(r, sh[1] + 2, sh[1] + 1 + sh[2])),
       c |-> ParseInt(SubSeq(r, sh[1] + sh[2] + 3, Len(r)))]

\* the year a triplet names: a year below 100 is in the 2000s
TripletYear(t) == IF t.c < 100 THEN t.c + 2000 ELSE t.c

\* YYYY-MM-DD of a year of four digits
IsoString(y, m, d) == NumStr(y) \o "-" \o Pad2(m) \o "-" \o Pad2(d)

\* C22: a write to a date input of a delimited triplet a/b/c leaves the date of month
\* a, day b and year c (c + 2000 for c < 100) in the input as YYYY-MM-DD when that is a
\* day of the calendar, and leaves the input as it was when it is not.
C22_TripletIsMonthDayYearOrNull ==
  (DateLikeWritten("date") /\ TripletShapes(Trim(op.value)) # {}) =>
    LET t == TripletNumbers(Trim(op.value))
    IN  IF t.a \in 1..12 /\ t.b \in 1..DaysInMonth(TripletYear(t), t.a)
        THEN dom[op.el].value = IsoString(TripletYear(t), t.a, t.b)
        ELSE dom[op.el].value = pre[op.el].value /\ events = <<>>

(***************************************************************************)
(* The selected model of a provider.  setSelectedModel is asynchronous: a  *)
(* call with a name is suspended at the await of listModels(), and calls   *)
(* may overlap.  The log of events holds every assignment to               *)
(* selectedModel, the first being the constructor's.                       *)
(***************************************************************************)
MaxModelCalls == 2

\* this.selectedModel = model
AssignModel(model) == [assign |-> "selectedModel", value |-> model]

\* what the await of listModels() ends in: a rejection, or a value the promise
\* resolves to, a list of names or nothing
ListRejects == [rejected |-> TRUE, listed |-> FALSE, models |-> <<>>]

ListResolves(models) == [rejected |-> FALSE, listed |-> TRUE, models |-> models]

\* listModels() resolves to undefined
ListResolvesNothing == [rejected |-> FALSE, listed |-> FALSE, models |-> <<>>]

ModelLists == {<<>>, <<"llama3">>, <<"gemma3:4b", "llama3">>}

ListOutcomes == {ListRejects, ListResolvesNothing} \cup {ListResolves(m) : m \in ModelLists}

ModelNames == {"", "llama3", "mistral", "gemma3:4b"}

\* the providers setSelectedModel is exercised on
ModelProviders ==
  {LocalOllamaProvider(ProviderConfig(NoOptions)),
   PerplexityProvider(ProviderConfig(Options(NoFieldNames, Undefined, "llama3", 0))),
   CustomProvider}

InitModels ==
  /\ dom = <<>>
  /\ pre = <<>>
  /\ op = NoOp
  /\ provider \in ModelProviders
  /\ events = <<AssignModel(provider.selectedModel)>>
  /\ result = Void
  /\ nOps = 0
  /\ selectedFields = NoFieldNames
  /\ calls = <<>>
  /\ chats = <<>>

\* a call of setSelectedModel in the log of calls
ModelCall(modelName, settled, value) ==
  [method |-> "setSelectedModel", modelName |-> modelName, settled |-> settled,
   value |-> value]

\* Faulty variant of AfterListModels: a name that is not in the list is stored all the same.
AfterListModels_storesUnlisted(modelName, outcome, debug) ==
  IF outcome.rejected \/ ~outcome.listed
  THEN [set |-> outcome.rejected \/ debug, value |-> outcome.rejected \/ debug]
  ELSE [set |-> TRUE, value |-> modelName \in Range(outcome.models)]

\* the body of setSelectedModel after the await: whether the name is stored and what
\* the promise resolves to.  A value that is no list is skipped by `t &&`; the warning
\* of the debug mode then reads t.join, which throws into the catch.
AfterListModels(modelName, outcome, debug) ==
  IF outcome.rejected THEN [set |-> TRUE, value |-> TRUE]
  ELSE IF ~outcome.listed THEN [set |-> debug, value |-> debug]
  ELSE [set |-> modelName \in Range(outcome.models),
        value |-> modelName \in Range(outcome.models)]

\* setSelectedModel(modelName), up to its return or its await
SetSelectedModel(modelName) ==
  /\ nOps < MaxModelCalls
  /\ nOps' = nOps + 1
  /\ calls' = Append(calls, ModelCall(modelName, modelName = "", FALSE))
  /\ op' = [name |-> "setSelectedModel", step |-> IF modelName = "" THEN "settled" ELSE "call",
            k |-> Len(calls) + 1, modelName |-> modelName, before |-> provider.selectedModel,
            outcome |-> Undefined]
  /\ result' = IF modelName = "" THEN Returned(FALSE) ELSE Pending
  /\ UNCHANGED <<dom, pre, events, selectedFields, provider, chats>>

\* the listModels() of call k settles and the call runs to its end
ListModelsSettles(k, outcome, debug) ==
  /\ ~calls[k].settled
  /\ LET r == AfterListModels(calls[k].modelName, outcome, debug)
     IN  /\ provider' = IF r.set THEN [provider EXCEPT !.selectedModel = calls[k].modelName]
                        ELSE provider
         /\ events' = IF r.set THEN Append(events, AssignModel(calls[k].modelName)) ELSE events
         /\ calls' = [calls EXCEPT ![k] = ModelCall(calls[k].modelName, TRUE, r.value)]
         /\ result' = Returned(r.value)
  /\ op' = [name |-> "setSelectedModel", step |-> "settled", k |-> k,
            modelName |-> calls[k].modelName, before |-> provider.selectedModel,
            outcome |-> outcome]
  /\ UNCHANGED <<dom, pre, nOps, selectedFields, chats>>

NextModels ==
  \/ \E modelName \in ModelNames : SetSelectedModel(modelName)
  \/ \E k \in 1..Len(calls), outcome \in ListOutcomes, debug \in BOOLEAN :
       ListModelsSettles(k, outcome, debug)

SpecModels == InitModels /\ [][NextModels]_vars

\* a call of setSelectedModel has just settled
ModelCallSettled == op.name = "setSelectedModel" /\ op.step = "settled"

\* listModels() of the settled call resolved to a list of names
ListedModels == ~op.outcome.rejected /\ op.outcome.listed

\* C23: setSelectedModel(name) stores name and resolves true when name is in the list
\* listModels() resolved to or listModels() rejected; it resolves false and leaves the
\* selected model as it was when name is empty or the list does not contain name; and
\* the selected model is always the constructor's model or a name for which a call
\* resolved true.
C23_ModelSetOnlyWhenValidated ==
  /\ (ModelCallSettled /\ op.modelName = "")
       => result = Returned(FALSE) /\ provider.selectedModel = op.before
  /\ (ModelCallSettled /\ op.modelName # "" /\ op.outcome.rejected)
       => result = Returned(TRUE) /\ provider.selectedModel = op.modelName
  /\ (ModelCallSettled /\ op.modelName # "" /\ ListedModels)
       => IF op.modelName \in Range(op.outcome.models)
          THEN result = Returned(TRUE) /\ provider.selectedModel = op.modelName
          ELSE result = Returned(FALSE) /\ provider.selectedModel = op.before
  /\ \/ provider.selectedModel = events[1].value
     \/ \E k \in 1..Len(calls) :
          /\ calls[k].settled /\ calls[k].value
          /\ calls[k].modelName = provider.selectedModel

\* C23 witness: two calls overlapped; the one whose list did not hold its name resolved
\* false after the other had stored its name and resolved true, and the selected
\* model is the name of the other.
C23_Witness ==
  /\ ModelCallSettled /\ Len(calls) = 2 /\ op.k = 1
  /\ calls[1] = ModelCall("mistral", TRUE, FALSE)
  /\ calls[2] = ModelCall("llama3", TRUE, TRUE)
  /\ ListedModels /\ provider.selectedModel = "llama3"
  /\ events[1].value = "gemma3:4b"

(***************************************************************************)
(* The hint of a radio group.                                              *)
(***************************************************************************)
\* the data-aff-hint values of the radios of name n that have one, in document order
MemberHints(n) ==
  LET members == SelectSeq(Indices(dom), LAMBDA i : IsRadio(dom[i]) /\ dom[i].name = n)
      hinted == SelectSeq(members, LAMBDA i : Truthy(dom[i].hint))
  IN  [j \in 1..Len(hinted) |-> dom[hinted[j]].hint]

\* C24: the hint of the descriptor of a radio group is the data-aff-hint values of the
\* members that have one, in document order, each once and joined by single spaces;
\* the descriptor has no hint when no member has one.
C24_GroupHintJoinsMemberHints ==
  TargetsCalled =>
    \A k \in 1..Len(result.value) :
      result.value[k].type = "radio" =>
        IF MemberHints(result.value[k].name) = <<>>
        THEN result.value[k].hint = Undefined
        ELSE result.value[k].hint = JoinStrings(MemberHints(result.value[k].name), " ")

(***************************************************************************)
(* Configuration changes while a call is in flight.                        *)
(***************************************************************************)
\* the step is a setFields or a setProvider
ConfigurationStep == op'.name \in {"setFields", "setProvider"}

\* the step starts a parseAndFillForm call
FillStarts == op'.name = "parseAndFillForm" /\ op'.step = "call"

\* the step ends the k-th suspended call, a parseAndFillForm call
FillEnds(k) ==
  /\ op'.name = "parseAndFillForm" /\ op'.step = "settle"
  /\ calls' = SubSeq(calls, 1, k - 1) \o SubSeq(calls, k + 1, Len(calls))

\* a call that starts takes its fields from the allow-list of that moment and invokes
\* the chat of the provider of that moment
StartFixesScopeAndProvider ==
  FillStarts =>
    /\ calls' = Append(calls, calls'[Len(calls')])
    /\ calls'[Len(calls')].selected = selectedFields
    /\ calls'[Len(calls')].fields = filteredFillTargets(getFillTargets(dom), selectedFields)
    /\ calls'[Len(calls')].provider = provider.name
    /\ chats' = [chats EXCEPT ![provider] = @ + 1]

\* a configuration change touches no suspended call, invokes no chat and writes nothing
ConfigurationLeavesCallsAlone ==
  ConfigurationStep => calls' = calls /\ chats' = chats /\ dom' = dom

\* control i is the element of the field, or a radio of the field's group
InField(i, field) ==
  \/ i = field.element
  \/ IsRadio(dom[i]) /\ IsRadio(dom[field.element]) /\ dom[i].name = dom[field.element].name

\* a call that ends writes only to controls of the fields it started with, invokes no
\* chat, and leaves alone every control whose name the allow-list it started with
\* does not hold, whatever the allow-list and the provider are by then
EndKeepsScope ==
  \A k \in 1..Len(calls) :
    FillEnds(k) =>
      /\ chats' = chats
      /\ \A i \in 1..Len(dom) :
           dom'[i] # dom[i] =>
             /\ \E n \in 1..Len(calls[k].fields) : InField(i, calls[k].fields[n])
             /\ calls[k].selected.defined => dom[i].name \in Range(calls[k].selected.names)

\* C25: the fields a parseAndFillForm call may write and the provider whose chat it
\* invokes are those of the allow-list and the active provider when the call starts;
\* a setFields or setProvider while the call is in flight changes neither for that
\* call and counts for the calls that start after it.
C25_ScopeAndProviderFixedAtStart ==
  [][StartFixesScopeAndProvider /\ ConfigurationLeavesCallsAlone /\ EndKeepsScope]_vars

\* C25 witness: a call started without allow-list; the list [firstName] was set while
\* the call was in flight; the answer carried firstName, lastName and terms, and all
\* three were written.
C25_Witness ==
  /\ FillSettled /\ op.selected = NoFieldNames /\ selectedFields = FieldNames(<<"firstName">>)
  /\ "lastName" \in DOMAIN op.extractedData
  /\ dom[1].value = "Jane" /\ dom[2].value = "Roe" /\ AssignedControls = <<1, 2, 3>>

(***************************************************************************)
(* Overlapping calls.                                                      *)
(***************************************************************************)
\* the step that ends the k-th suspended call applies the whole parsed response of
\* that call to the controls as they are then, field after field
AppliesWholeResponse(k) ==
  FillEnds(k) =>
    IF op'.filled
    THEN \E rt \in FillRuntimes :
           /\ dom' = FillFields(dom, calls[k].fields, Len(calls[k].fields),
                                op'.extractedData, rt).dom
           /\ events' = FillFields(dom, calls[k].fields, Len(calls[k].fields),
                                   op'.extractedData, rt).ev
    ELSE dom' = dom /\ events' = <<>>

FieldsOfCall == calls[Len(calls)].fields

\* the identifiers, by name, else label, else placeholder, of the fields of the call
\* that have one
LookupIdentifiers ==
  {NameLabelPlaceholder(FieldsOfCall[k]) :
     k \in {j \in 1..Len(FieldsOfCall) : Truthy(NameLabelPlaceholder(FieldsOfCall[j]))}}

\* C27: the property names of the schema a parseAndFillForm request carries are exactly
\* the identifiers (name, else label, else placeholder) under which the fill loop looks
\* the values of the fields in scope up.
C27_SchemaNamesAreLookupIdentifiers ==
  (FillCalled /\ op.step = "call" /\ op.provider.supportsStructuredResponses)
    => DOMAIN op.chatRequest.format.properties = LookupIdentifiers

(***************************************************************************)
(* The empty allow-list.                                                   *)
(***************************************************************************)
\* C28: setFields([]) leaves the empty array as the allow-list, as targetFields: []
\* does, and a call made with an allow-list that is an empty array has no field in scope:
\* the field section of its prompt is empty, one request goes to the provider, and
\* whatever the answer is no control is written; a call made with no allow-list has
\* every detected field in scope.
C28_EmptyAllowListFillsNothing ==
  [][/\ (op'.name = "setFields" /\ op'.fields = FieldNames(<<>>))
          => selectedFields' = FieldNames(<<>>)
     /\ (FillStarts /\ selectedFields = FieldNames(<<>>))
          => /\ calls'[Len(calls')].fields = <<>>
             /\ op'.chatRequest.prompt.fields = <<>>
             /\ chats' = [chats EXCEPT ![provider] = @ + 1]
     /\ (FillStarts /\ selectedFields = NoFieldNames)
          => /\ calls'[Len(calls')].fields = getFillTargets(dom)
             /\ Len(op'.chatRequest.prompt.fields) = Len(getFillTargets(dom))
     /\ \A k \in 1..Len(calls) :
          (FillEnds(k) /\ calls[k].selected = FieldNames(<<>>))
            => dom' = dom /\ events' = <<>>]_vars

\* C28 witness: under the empty allow-list a request went out and the answer, which
\* named three fields of the form, was parsed; nothing was written.
C28_Witness ==
  /\ FillSettled /\ op.selected = FieldNames(<<>>) /\ op.filled
  /\ DOMAIN op.extractedData = {"firstName", "lastName", "terms"}
  /\ dom = PersonForm /\ events = <<>> /\ chats[OllamaProvider] = 1
  /\ op.chatRequest.prompt.fields = <<>>

(***************************************************************************)
(* JSON null, the empty string and JSON booleans in an answer.             *)
(***************************************************************************)
\* the call ended on the answer `text`
AnsweredWith(text) == FillSettled /\ op.outcome = ChatContent(text)

\* C29: a field in scope whose identifier the answer maps to JSON null or to the empty
\* string keeps its state: the parser turns null into the text null, which the writer
\* takes for "no data", and the fill loop passes over the empty string.
C29_NullAndEmptyLeaveFieldUnchanged ==
  /\ AnsweredWith(NullsAnswer)
       => /\ op.filled
          /\ op.extractedData = ("firstName" :> "null" @@ "lastName" :> "" @@ "terms" :> "null")
  /\ (FillSettled /\ op.filled)
       => \A k \in 1..Len(op.fields) :
            (/\ getFieldIdentifier(op.fields[k]) \in DOMAIN op.extractedData
             /\ op.extractedData[getFieldIdentifier(op.fields[k])] \in {"null", ""})
              => \A i \in ControlsOf(op.fields[k]) : NotWritten(i)

\* C29 witness: a form filled by an earlier answer got an answer that maps firstName
\* and terms to null and lastName to the empty string; the three fields are in scope
\* and hold what the earlier answer gave them.
C29_Witness ==
  /\ AnsweredWith(NullsAnswer) /\ Len(op.fields) = 4 /\ events = <<>>
  /\ dom[1].value = "Jane" /\ dom[2].value = "Roe" /\ dom[3].checked

\* the checkboxes in scope that the call looked up under the identifier terms
TermsCheckboxes ==
  {op.fields[k].element :
     k \in {j \in 1..Len(op.fields) : /\ op.fields[j].type = "checkbox"
                                      /\ getFieldIdentifier(op.fields[j]) = "terms"}}

\* C30: after a fill whose answer maps the identifier of a checkbox in scope to the
\* JSON boolean b, the checkbox is checked exactly if b is true, whatever it was before.
C30_CheckboxFollowsJsonBoolean ==
  \A b \in BOOLEAN :
    AnsweredWith(BooleanAnswer(b))
      => /\ op.filled
         /\ op.extractedData = ("terms" :> (IF b THEN "true" ELSE "false"))
         /\ \A i \in TermsCheckboxes : dom[i].checked = b

\* C30 witness: a checkbox that was checked got the JSON boolean false and is unchecked.
C30_Witness ==
  /\ AnsweredWith(BooleanAnswer(FALSE)) /\ TermsCheckboxes = {3}
  /\ pre[3].checked /\ ~dom[3].checked
====
